---- MODULE Spec2Model ----
(***************************************************************************)
(* Model of the NGPL poker trainer's rules engine: the card/deck model,    *)
(* the hand evaluator, the betting engine (GameEngine) and the driver      *)
(* steps of App.tsx that feed actions into it.                             *)
(*                                                                         *)
(* Seats are indexed 0..n-1 as in the source, so that the modular seat     *)
(* arithmetic reads as in the code.  A seat's id/name is its index.        *)
(***************************************************************************)
EXTENDS Integers, Sequences, FiniteSets, TLC

(***************************************************************************)
(* constants.ts                                                            *)
(***************************************************************************)
BIG_BLIND == 20
SMALL_BLIND == 10

RANKS == <<"2", "3", "4", "5", "6", "7", "8", "9", "10", "J", "Q", "K", "A">>
SUITS == <<"H", "D", "C", "S">>

(***************************************************************************)
(* Generic helpers standing for JavaScript built-ins.                      *)
(***************************************************************************)
Min(a, b) == IF a <= b THEN a ELSE b
Max(a, b) == IF a >= b THEN a ELSE b

\* Math.floor(a / b) for a >= 0, b > 0
FloorDiv(a, b) == a \div b

RECURSIVE SumTo(_, _)
SumTo(f, k) == IF k < 0 THEN 0 ELSE f[k] + SumTo(f, k - 1)

(***************************************************************************)
(* poker.ts: cards and deck                                                *)
(***************************************************************************)
RANK_VALUE == [r \in {RANKS[i] : i \in 1..13} |->
                 CHOOSE i \in 2..14 : RANKS[i - 1] = r]

getCardValue(card) == RANK_VALUE[card.rank]

\* createDeck: suits outer, ranks inner, pushed in order
createDeck == [k \in 1..52 |->
                 [suit |-> SUITS[((k - 1) \div 13) + 1],
                  rank |-> RANKS[((k - 1) % 13) + 1]]]

\* [a[i], a[j]] = [a[j], a[i]] on a 1-based sequence
Swap(a, i, j) == [a EXCEPT ![i] = a[j], ![j] = a[i]]

\* shuffleDeck: Fisher-Yates from the last index down to 1 (0-based); draws[i]
\* is the value of Math.floor(Math.random() * (i + 1)) at loop index i.
RECURSIVE FisherYates(_, _, _)
FisherYates(newDeck, i, draws) ==
  IF i <= 0 THEN newDeck
  ELSE FisherYates(Swap(newDeck, i + 1, draws[i] + 1), i - 1, draws)

shuffleDeck(deckIn, draws) == FisherYates(deckIn, Len(deckIn) - 1, draws)

(***************************************************************************)
(* poker.ts: evaluateHand                                                  *)
(***************************************************************************)
\* Array.prototype.sort with (a, b) => value(b) - value(a): stable, descending
RECURSIVE InsertDesc(_, _)
InsertDesc(sorted, card) ==
  IF sorted = <<>> THEN <<card>>
  ELSE IF getCardValue(Head(sorted)) >= getCardValue(card)
       THEN <<Head(sorted)>> \o InsertDesc(Tail(sorted), card)
       ELSE <<card>> \o sorted

\* variant of the sort: the cards are left in the order they came in
SortDescNone(cards) == cards

RECURSIVE SortDesc(_)
SortDesc(cards) ==
  IF cards = <<>> THEN <<>>
  ELSE InsertDesc(SortDesc(SubSeq(cards, 1, Len(cards) - 1)), cards[Len(cards)])

\* counts[v]: how many of the values equal v
CountOf(values, v) == Cardinality({i \in DOMAIN values : values[i] = v})

\* the distinct values, in descending order (distinctValues / uniqueSorted)
RECURSIVE Distinct(_)
Distinct(values) ==
  IF values = <<>> THEN <<>>
  ELSE LET rest == Distinct(Tail(values))
       IN IF \E i \in DOMAIN rest : rest[i] = Head(values)
          THEN rest ELSE <<Head(values)>> \o rest

\* the straight scan: for i = 0 .. length-2 over uniqueSorted (0-based i)
RECURSIVE StraightScan(_, _, _, _)
StraightScan(u, i, consecutive, straightHigh) ==
  IF i >= Len(u) - 1 THEN straightHigh
  ELSE IF u[i + 1] - u[i + 2] = 1
       THEN StraightScan(u, i + 1, consecutive + 1,
                         IF consecutive + 1 >= 4 THEN u[i - 3 + 1] ELSE straightHigh)
       ELSE StraightScan(u, i + 1, 0, straightHigh)

Includes(u, v) == \E i \in DOMAIN u : u[i] = v

\* variant of the full-house loop: only a value held exactly twice is taken
\* for the pair of the full house
RECURSIVE ThreeTwoScanPairOnly(_, _, _, _)
ThreeTwoScanPairOnly(values, dv, three, two) ==
  IF dv = <<>> THEN <<three, two>>
  ELSE LET v == Head(dv)
       IN IF CountOf(values, v) = 3 /\ three = 0
          THEN ThreeTwoScanPairOnly(values, Tail(dv), v, two)
          ELSE IF CountOf(values, v) = 2 /\ two = 0
               THEN ThreeTwoScanPairOnly(values, Tail(dv), three, v)
               ELSE ThreeTwoScanPairOnly(values, Tail(dv), three, two)

\* the full-house loop over distinctValues: returns <<three, two>>
RECURSIVE ThreeTwoScan(_, _, _, _)
ThreeTwoScan(values, dv, three, two) ==
  IF dv = <<>> THEN <<three, two>>
  ELSE LET v == Head(dv)
       IN IF CountOf(values, v) = 3 /\ three = 0
          THEN ThreeTwoScan(values, Tail(dv), v, two)
          ELSE IF CountOf(values, v) >= 2 /\ two = 0
               THEN ThreeTwoScan(values, Tail(dv), three, v)
               ELSE ThreeTwoScan(values, Tail(dv), three, two)

\* the values of dv (in order) whose count satisfies count = c
RECURSIVE WithCount(_, _, _)
WithCount(values, dv, c) ==
  IF dv = <<>> THEN <<>>
  ELSE IF CountOf(values, Head(dv)) = c
       THEN <<Head(dv)>> \o WithCount(values, Tail(dv), c)
       ELSE WithCount(values, Tail(dv), c)

\* flushCards: the values of the cards of the first suit (in order of
\* appearance in the sorted cards) that holds five or more cards; empty when
\* there is no such suit (isFlush is false)
SuitCount(allCards, s) == Cardinality({i \in DOMAIN allCards : allCards[i].suit = s})

RECURSIVE ValuesOfSuit(_, _)
ValuesOfSuit(cards, s) ==
  IF cards = <<>> THEN <<>>
  ELSE IF Head(cards).suit = s
       THEN <<getCardValue(Head(cards))>> \o ValuesOfSuit(Tail(cards), s)
       ELSE ValuesOfSuit(Tail(cards), s)

FlushCards(allCards) ==
  IF \A i \in DOMAIN allCards : SuitCount(allCards, allCards[i].suit) < 5 THEN <<>>
  ELSE ValuesOfSuit(allCards,
         allCards[CHOOSE i \in DOMAIN allCards :
                    /\ SuitCount(allCards, allCards[i].suit) >= 5
                    /\ \A j \in DOMAIN allCards :
                          SuitCount(allCards, allCards[j].suit) >= 5 => i <= j].suit)

\* straightHigh: the scan, then the wheel when the scan found nothing
Wheel(uniqueSorted, scanHigh) ==
  IF scanHigh = 0 /\ Includes(uniqueSorted, 14) /\ Includes(uniqueSorted, 2)
     /\ Includes(uniqueSorted, 3) /\ Includes(uniqueSorted, 4)
     /\ Includes(uniqueSorted, 5)
  THEN 5 ELSE scanHigh

StraightHigh(uniqueSorted) == Wheel(uniqueSorted, StraightScan(uniqueSorted, 0, 0, 0))

\* variant of "Detect Hands": the full house weighs its three of a kind by 100
DetectHandsWideFullHouse(values, quads, tt, pairs, flushCards, straightHigh) ==
  IF quads # <<>> THEN [score |-> 7000 + quads[1], description |-> "Four of a Kind"]
  ELSE IF tt[1] # 0 /\ tt[2] # 0
    THEN [score |-> 6000 + tt[1] * 100 + tt[2], description |-> "Full House"]
  ELSE IF flushCards # <<>>
    THEN [score |-> 5000 + flushCards[1], description |-> "Flush"]
  ELSE IF straightHigh # 0
    THEN [score |-> 4000 + straightHigh, description |-> "Straight"]
  ELSE IF tt[1] # 0
    THEN [score |-> 3000 + tt[1], description |-> "Three of a Kind"]
  ELSE IF Len(pairs) >= 2
    THEN [score |-> 2000 + pairs[1] * 10 + pairs[2], description |-> "Two Pair"]
  ELSE IF Len(pairs) = 1
    THEN [score |-> 1000 + pairs[1], description |-> "Pair"]
  ELSE [score |-> values[1], description |-> "High Card"]

\* "Detect Hands": the chain of returns, in the code's order
DetectHands(values, quads, tt, pairs, flushCards, straightHigh) ==
  IF quads # <<>> THEN [score |-> 7000 + quads[1], description |-> "Four of a Kind"]
  ELSE IF tt[1] # 0 /\ tt[2] # 0
    THEN [score |-> 6000 + tt[1] * 10 + tt[2], description |-> "Full House"]
  ELSE IF flushCards # <<>>
    THEN [score |-> 5000 + flushCards[1], description |-> "Flush"]
  ELSE IF straightHigh # 0
    THEN [score |-> 4000 + straightHigh, description |-> "Straight"]
  ELSE IF tt[1] # 0
    THEN [score |-> 3000 + tt[1], description |-> "Three of a Kind"]
  ELSE IF Len(pairs) >= 2
    THEN [score |-> 2000 + pairs[1] * 10 + pairs[2], description |-> "Two Pair"]
  ELSE IF Len(pairs) = 1
    THEN [score |-> 1000 + pairs[1], description |-> "Pair"]
  ELSE [score |-> values[1], description |-> "High Card"]

\* the frequency map and what the loops over distinctValues collect from it
Classify(values, distinctValues, flushCards) ==
  DetectHands(values,
              WithCount(values, distinctValues, 4),
              ThreeTwoScan(values, distinctValues, 0, 0),
              WithCount(values, distinctValues, 2),
              flushCards,
              StraightHigh(distinctValues))

ValuesOf(allCards) == [i \in DOMAIN allCards |-> getCardValue(allCards[i])]

EvaluateSorted(allCards, values) ==
  Classify(values, Distinct(values), FlushCards(allCards))

evaluateHand(holeCards, communityCards) ==
  IF Len(holeCards \o communityCards) = 0 THEN [score |-> 0, description |-> "Waiting"]
  ELSE EvaluateSorted(SortDesc(holeCards \o communityCards),
                      ValuesOf(SortDesc(holeCards \o communityCards)))

\* variant of the filter: every seat is kept
RECURSIVE ActivePlayersAllSeats(_, _)
ActivePlayersAllSeats(players, i) ==
  IF i \notin DOMAIN players THEN <<>>
  ELSE <<i>> \o ActivePlayersAllSeats(players, i + 1)

\* players.filter(p => p.isActive), as the seats' indices in seat order
RECURSIVE ActivePlayers(_, _)
ActivePlayers(players, i) ==
  IF i \notin DOMAIN players THEN <<>>
  ELSE IF players[i].isActive
       THEN <<i>> \o ActivePlayers(players, i + 1)
       ELSE ActivePlayers(players, i + 1)

\* the forEach of determineWinner from the k-th active player on
RECURSIVE WinnerLoop(_, _, _, _, _, _)
WinnerLoop(players, communityCards, activePlayers, k, bestScore, winners) ==
  IF k > Len(activePlayers) THEN winners
  ELSE LET score == evaluateHand(players[activePlayers[k]].hand, communityCards).score
       IN IF score > bestScore
          THEN WinnerLoop(players, communityCards, activePlayers, k + 1, score,
                          <<activePlayers[k]>>)
          ELSE IF score = bestScore
               THEN WinnerLoop(players, communityCards, activePlayers, k + 1,
                               bestScore, Append(winners, activePlayers[k]))
               ELSE WinnerLoop(players, communityCards, activePlayers, k + 1,
                               bestScore, winners)

WinnersAmong(players, communityCards, activePlayers) ==
  IF Len(activePlayers) = 0 THEN <<>>
  ELSE IF Len(activePlayers) = 1 THEN <<activePlayers[1]>>
  ELSE WinnerLoop(players, communityCards, activePlayers, 1, -1, <<>>)

\* determineWinner: the winning players, as their indices in players
determineWinner(players, communityCards) ==
  WinnersAmong(players, communityCards, ActivePlayers(players, 0))

\* gradeStartingHand.  The score takes halves (v1 / 2), so the points are
\* counted in halves until Math.ceil: ChenHalves is twice the score.
HighCardHalves(v1) ==
  IF v1 = 14 THEN 20
  ELSE IF v1 = 13 THEN 16
  ELSE IF v1 = 12 THEN 14
  ELSE IF v1 = 11 THEN 12
  ELSE v1

PairHalves(halves, v1, v2) ==
  IF v1 = v2 THEN (IF halves * 2 < 10 THEN 10 ELSE halves * 2) ELSE halves

GapHalves(gap) ==
  IF gap = 1 THEN 2
  ELSE IF gap = 2 THEN -2
  ELSE IF gap = 3 THEN -4
  ELSE IF gap = 4 THEN -8
  ELSE IF gap >= 5 THEN -10
  ELSE 0

\* twice the score of c1, c2 (c1 the higher card) before Math.ceil
ChenHalves(c1, c2) ==
  PairHalves(HighCardHalves(getCardValue(c1)), getCardValue(c1), getCardValue(c2))
  + (IF c1.suit = c2.suit THEN 4 ELSE 0)
  + GapHalves(getCardValue(c1) - getCardValue(c2))
  + (IF getCardValue(c1) - getCardValue(c2) <= 1 /\ getCardValue(c1) < 12
        /\ c1.suit = c2.suit
     THEN 2 ELSE 0)

\* Math.ceil of halves / 2
CeilHalf(halves) == (halves + 1) \div 2

\* "Determine Grade": the chain of thresholds
Graded(score) ==
  IF score >= 20 THEN [score |-> score, grade |-> "S", tip |-> "Monster. Raise big."]
  ELSE IF score >= 15
    THEN [score |-> score, grade |-> "A", tip |-> "Premium. 3-bet territory."]
  ELSE IF score >= 10
    THEN [score |-> score, grade |-> "B", tip |-> "Strong. Playable from any position."]
  ELSE IF score >= 7
    THEN [score |-> score, grade |-> "C", tip |-> "Marginal. Careful out of position."]
  ELSE IF score >= 5
    THEN [score |-> score, grade |-> "D", tip |-> "Speculative. Fold unless on Button."]
  ELSE [score |-> score, grade |-> "F", tip |-> "Garbage. Do not play."]

\* variant of gradeStartingHand: the two cards are not put high card first
gradeStartingHandUnsorted(hand) ==
  IF Len(hand) # 2 THEN [score |-> 0, grade |-> "?", tip |-> "Wait for deal"]
  ELSE Graded(CeilHalf(ChenHalves(hand[1], hand[2])))

gradeStartingHand(hand) ==
  IF Len(hand) # 2 THEN [score |-> 0, grade |-> "?", tip |-> "Wait for deal"]
  ELSE IF getCardValue(hand[1]) >= getCardValue(hand[2])
       THEN Graded(CeilHalf(ChenHalves(hand[1], hand[2])))
       ELSE Graded(CeilHalf(ChenHalves(hand[2], hand[1])))

(***************************************************************************)
(* poker.ts: getBotDecision.  Probabilities and Math.random() outcomes are *)
(* counted in hundredths, strengths in 1/15000 (so that score / 25,        *)
(* score / 1500 and (score - 1000) / 1000 * 0.2 are whole numbers).        *)
(***************************************************************************)
\* BOT_PROFILES, and the profile of a name that is not in it
BOT_PROFILES ==
  { [vpip |-> 15, aggression |-> 80, bluff |-> 20],
    [vpip |-> 50, aggression |-> 90, bluff |-> 80],
    [vpip |-> 5, aggression |-> 20, bluff |-> 0],
    [vpip |-> 60, aggression |-> 60, bluff |-> 60],
    [vpip |-> 30, aggression |-> 40, bluff |-> 30],
    [vpip |-> 80, aggression |-> 10, bluff |-> 10],
    [vpip |-> 90, aggression |-> 90, bluff |-> 90],
    [vpip |-> 50, aggression |-> 50, bluff |-> 10] }

\* the outcomes of one Math.random() call that are told apart
Rolls == {0, 50, 99}

\* the Math.random() calls of one getBotDecision call: the bluff roll, the
\* pre-flop vpipRoll or the post-flop fold roll, raiseRoll and the roll that
\* sizes the raise
RollSets == [bluff : Rolls, entry : Rolls, raise : Rolls, size : Rolls]

\* "1. Evaluate Hand Strength"
HandStrength(player, state) ==
  IF state.phase = "PRE_FLOP"
  THEN Min(gradeStartingHand(player.hand).score, 25) * 600
  ELSE LET score == evaluateHand(player.hand, state.communityCards).score
       IN IF score < 1000 THEN 1500 + score * 10
          ELSE IF score < 2000 THEN 6000 + (score - 1000) * 3
          ELSE IF score < 3000 THEN 10500
          ELSE IF score < 4000 THEN 12000
          ELSE 14250

\* Math.max(minBet, Math.floor(pot * (0.5 + Math.random())))
RaiseSize(state, roll) == Max(state.minBet, (state.pot * (50 + roll)) \div 100)

\* variant of the decision matrix: the closing return is CALL whatever is
\* outstanding
DecideCallsAlways(baseStrength, player, state, profile, rolls) ==
  LET toCall == state.currentBet - player.currentBet
      isCheck == toCall = 0
      strength == IF rolls.bluff < profile.bluff THEN baseStrength + 4500
                  ELSE baseStrength
      folds == IF state.phase = "PRE_FLOP"
               THEN ~isCheck /\ strength < 4500 /\ rolls.entry > profile.vpip
               ELSE ~isCheck /\ strength < 4500 /\ rolls.entry > profile.bluff
      canAffordRaise == player.chips > toCall + state.minBet
  IN IF folds THEN [action |-> "FOLD", amount |-> 0]
     ELSE IF canAffordRaise /\ rolls.raise < profile.aggression /\ strength > 6000
       THEN [action |-> "RAISE", amount |-> RaiseSize(state, rolls.size)]
     ELSE [action |-> "CALL", amount |-> 0]

\* variant of the decision matrix: a raise is returned whatever the stack
DecideRaisesBroke(baseStrength, player, state, profile, rolls) ==
  LET toCall == state.currentBet - player.currentBet
      isCheck == toCall = 0
      strength == IF rolls.bluff < profile.bluff THEN baseStrength + 4500
                  ELSE baseStrength
      folds == IF state.phase = "PRE_FLOP"
               THEN ~isCheck /\ strength < 4500 /\ rolls.entry > profile.vpip
               ELSE ~isCheck /\ strength < 4500 /\ rolls.entry > profile.bluff
  IN IF folds THEN [action |-> "FOLD", amount |-> 0]
     ELSE IF rolls.raise < profile.aggression /\ strength > 6000
       THEN [action |-> "RAISE", amount |-> RaiseSize(state, rolls.size)]
     ELSE [action |-> (IF isCheck THEN "CHECK" ELSE "CALL"), amount |-> 0]

\* "2. Adjust Strength with Personality" and "3. Decision Matrix", from the
\* strength of step 1; amount is 0 where the code returns no amount
Decide(baseStrength, player, state, profile, rolls) ==
  LET toCall == state.currentBet - player.currentBet
      isCheck == toCall = 0
      strength == IF rolls.bluff < profile.bluff THEN baseStrength + 4500
                  ELSE baseStrength
      folds == IF state.phase = "PRE_FLOP"
               THEN ~isCheck /\ strength < 4500 /\ rolls.entry > profile.vpip
               ELSE ~isCheck /\ strength < 4500 /\ rolls.entry > profile.bluff
      canAffordRaise == player.chips > toCall + state.minBet
  IN IF folds THEN [action |-> "FOLD", amount |-> 0]
     ELSE IF canAffordRaise /\ rolls.raise < profile.aggression /\ strength > 6000
       THEN [action |-> "RAISE", amount |-> RaiseSize(state, rolls.size)]
     ELSE [action |-> (IF isCheck THEN "CHECK" ELSE "CALL"), amount |-> 0]

getBotDecision(player, state, profile, rolls) ==
  Decide(HandStrength(player, state), player, state, profile, rolls)

(***************************************************************************)
(* engine.ts: GameEngine.  A GameState is a record; every operation takes  *)
(* a state and returns the state the code returns.                         *)
(***************************************************************************)
NumSeats(players) == Cardinality(DOMAIN players)

\* p.isActive && !p.isAllIn
CanAct(p) == p.isActive /\ ~p.isAllIn

\* the number of seats before index i (exclusive) that are dealt cards
ActiveBefore(players, i) == Cardinality({j \in DOMAIN players : j < i /\ players[j].isActive})

NumActive(players) == Cardinality({j \in DOMAIN players : players[j].isActive})

\* variant of the pops: the last card popped stays on the deck
PopNOneShort(deckIn, k) == SubSeq(deckIn, 1, Len(deckIn) - k + 1)

\* deck.pop() k times: the deck that remains
PopN(deckIn, k) == SubSeq(deckIn, 1, Len(deckIn) - k)

\* the k-th card popped from the deck (k = 1 is the last element)
Popped(deckIn, k) == deckIn[Len(deckIn) - k + 1]

\* variant of setupNewHand: the blinds are posted in full, whatever the stack
setupNewHandFullBlinds(currentPlayers, dealerIdx, handCount, currentHistory, shuffled) ==
  LET n == NumSeats(currentPlayers)
      reset == [i \in DOMAIN currentPlayers |->
                  [currentPlayers[i] EXCEPT !.hand = <<>>,
                                            !.isActive = (currentPlayers[i].chips > 0),
                                            !.isAllIn = FALSE,
                                            !.currentBet = 0]]
      nextDealer == (dealerIdx + 1) % n
      headsUp == Cardinality({i \in DOMAIN reset : reset[i].chips > 0}) = 2
      sbIndex == IF headsUp THEN nextDealer ELSE (nextDealer + 1) % n
      bbIndex == IF headsUp THEN (nextDealer + 1) % n ELSE (nextDealer + 2) % n
      sbAmt == SMALL_BLIND
      afterSb == [reset EXCEPT ![sbIndex] =
                    [@ EXCEPT !.chips = @ - sbAmt,
                              !.currentBet = sbAmt,
                              !.isAllIn = (reset[sbIndex].chips - sbAmt = 0)]]
      bbAmt == BIG_BLIND
      afterBb == [afterSb EXCEPT ![bbIndex] =
                    [@ EXCEPT !.chips = @ - bbAmt,
                              !.currentBet = bbAmt,
                              !.isAllIn = (afterSb[bbIndex].isAllIn
                                           \/ afterSb[bbIndex].chips - bbAmt = 0)]]
      dealt == [i \in DOMAIN afterBb |->
                  IF afterBb[i].isActive
                  THEN [afterBb[i] EXCEPT !.hand =
                          <<Popped(shuffled, 2 * ActiveBefore(afterBb, i) + 1),
                            Popped(shuffled, 2 * ActiveBefore(afterBb, i) + 2)>>]
                  ELSE afterBb[i]]
  IN [phase |-> "PRE_FLOP",
      pot |-> sbAmt + bbAmt,
      communityCards |-> <<>>,
      deck |-> PopN(shuffled, 2 * NumActive(afterBb)),
      players |-> dealt,
      currentPlayerIndex |-> (bbIndex + 1) % n,
      dealerIndex |-> nextDealer,
      minBet |-> BIG_BLIND,
      currentBet |-> BIG_BLIND,
      lastRaiserIndex |-> bbIndex,
      winners |-> {},
      winningHandDesc |-> "",
      lastPotSize |-> 0,
      handHistory |-> currentHistory,
      handCount |-> handCount + 1]

setupNewHand(currentPlayers, dealerIdx, handCount, currentHistory, shuffled) ==
  LET n == NumSeats(currentPlayers)
      reset == [i \in DOMAIN currentPlayers |->
                  [currentPlayers[i] EXCEPT !.hand = <<>>,
                                            !.isActive = (currentPlayers[i].chips > 0),
                                            !.isAllIn = FALSE,
                                            !.currentBet = 0]]
      nextDealer == (dealerIdx + 1) % n
      headsUp == Cardinality({i \in DOMAIN reset : reset[i].chips > 0}) = 2
      sbIndex == IF headsUp THEN nextDealer ELSE (nextDealer + 1) % n
      bbIndex == IF headsUp THEN (nextDealer + 1) % n ELSE (nextDealer + 2) % n
      sbAmt == Min(SMALL_BLIND, reset[sbIndex].chips)
      afterSb == [reset EXCEPT ![sbIndex] =
                    [@ EXCEPT !.chips = @ - sbAmt,
                              !.currentBet = sbAmt,
                              !.isAllIn = (reset[sbIndex].chips - sbAmt = 0)]]
      bbAmt == Min(BIG_BLIND, afterSb[bbIndex].chips)
      afterBb == [afterSb EXCEPT ![bbIndex] =
                    [@ EXCEPT !.chips = @ - bbAmt,
                              !.currentBet = bbAmt,
                              !.isAllIn = (afterSb[bbIndex].isAllIn
                                           \/ afterSb[bbIndex].chips - bbAmt = 0)]]
      dealt == [i \in DOMAIN afterBb |->
                  IF afterBb[i].isActive
                  THEN [afterBb[i] EXCEPT !.hand =
                          <<Popped(shuffled, 2 * ActiveBefore(afterBb, i) + 1),
                            Popped(shuffled, 2 * ActiveBefore(afterBb, i) + 2)>>]
                  ELSE afterBb[i]]
  IN [phase |-> "PRE_FLOP",
      pot |-> sbAmt + bbAmt,
      communityCards |-> <<>>,
      deck |-> PopN(shuffled, 2 * NumActive(afterBb)),
      players |-> dealt,
      currentPlayerIndex |-> (bbIndex + 1) % n,
      dealerIndex |-> nextDealer,
      minBet |-> BIG_BLIND,
      currentBet |-> BIG_BLIND,
      lastRaiserIndex |-> bbIndex,
      winners |-> {},
      winningHandDesc |-> "",
      lastPotSize |-> 0,
      handHistory |-> currentHistory,
      handCount |-> handCount + 1]

\* The state object handed to processPlayerAction, as it is after the call:
\* newPlayers = [...state.players] copies the array but not the seat objects,
\* so p = newPlayers[pIndex] is the input's own seat record and the
\* assignments to p.chips, p.currentBet and p.isAllIn land in it; the input's
\* other fields are only read.
InputAfterAction(state, pIndex, amount) ==
  LET player == state.players[pIndex]
      actualAmount == Min(amount, player.chips)
  IN [state EXCEPT !.players[pIndex] =
        [player EXCEPT !.chips = @ - actualAmount,
                       !.currentBet = @ + actualAmount,
                       !.isAllIn = (@ \/ player.chips - actualAmount = 0)]]

\* variant of processPlayerAction: a bet that only equals the table's bet
\* counts as a raise
processPlayerActionRaiseOnEqual(state, pIndex, amount) ==
  LET player == state.players[pIndex]
      actualAmount == Min(amount, player.chips)
      p == [player EXCEPT !.chips = @ - actualAmount,
                          !.currentBet = @ + actualAmount,
                          !.isAllIn = (@ \/ player.chips - actualAmount = 0)]
      isRaise == p.currentBet >= state.currentBet
      raiseDiff == p.currentBet - state.currentBet
  IN [state EXCEPT !.players = [state.players EXCEPT ![pIndex] = p],
                   !.pot = state.pot + actualAmount,
                   !.currentBet = IF isRaise THEN p.currentBet ELSE @,
                   !.minBet = IF isRaise THEN Max(state.minBet, raiseDiff) ELSE @,
                   !.lastRaiserIndex = IF isRaise THEN pIndex ELSE @]

\* variant of processPlayerAction: the requested amount is committed as it is,
\* without the cap at the seat's chips
processPlayerActionNoCap(state, pIndex, amount) ==
  LET player == state.players[pIndex]
      actualAmount == amount
      p == [player EXCEPT !.chips = @ - actualAmount,
                          !.currentBet = @ + actualAmount,
                          !.isAllIn = (@ \/ player.chips - actualAmount = 0)]
      isRaise == p.currentBet > state.currentBet
      raiseDiff == p.currentBet - state.currentBet
  IN [state EXCEPT !.players = [state.players EXCEPT ![pIndex] = p],
                   !.pot = state.pot + actualAmount,
                   !.currentBet = IF isRaise THEN p.currentBet ELSE @,
                   !.minBet = IF isRaise THEN Max(state.minBet, raiseDiff) ELSE @,
                   !.lastRaiserIndex = IF isRaise THEN pIndex ELSE @]

\* variant of processPlayerAction: the pot grows by the requested amount, not by
\* the amount capped at the seat's chips
processPlayerActionUncappedPot(state, pIndex, amount) ==
  LET player == state.players[pIndex]
      actualAmount == Min(amount, player.chips)
      p == [player EXCEPT !.chips = @ - actualAmount,
                          !.currentBet = @ + actualAmount,
                          !.isAllIn = (@ \/ player.chips - actualAmount = 0)]
      isRaise == p.currentBet > state.currentBet
      raiseDiff == p.currentBet - state.currentBet
  IN [state EXCEPT !.players = [state.players EXCEPT ![pIndex] = p],
                   !.pot = state.pot + amount,
                   !.currentBet = IF isRaise THEN p.currentBet ELSE @,
                   !.minBet = IF isRaise THEN Max(state.minBet, raiseDiff) ELSE @,
                   !.lastRaiserIndex = IF isRaise THEN pIndex ELSE @]

\* variant of processPlayerAction: the minimum raise becomes the size of the
\* last raise, without the Math.max against the previous minimum
processPlayerActionLastRaise(state, pIndex, amount) ==
  LET player == state.players[pIndex]
      actualAmount == Min(amount, player.chips)
      p == [player EXCEPT !.chips = @ - actualAmount,
                          !.currentBet = @ + actualAmount,
                          !.isAllIn = (@ \/ player.chips - actualAmount = 0)]
      isRaise == p.currentBet > state.currentBet
      raiseDiff == p.currentBet - state.currentBet
  IN [state EXCEPT !.players = [state.players EXCEPT ![pIndex] = p],
                   !.pot = state.pot + actualAmount,
                   !.currentBet = IF isRaise THEN p.currentBet ELSE @,
                   !.minBet = IF isRaise THEN raiseDiff ELSE @,
                   !.lastRaiserIndex = IF isRaise THEN pIndex ELSE @]

\* processPlayerAction(state, player, amount, ...), where player is the seat
\* record state.players[pIndex] the driver passes in
\* variant of processPlayerAction: a raise leaves the table bet where it was
processPlayerActionBetStays(state, pIndex, amount) ==
  LET player == state.players[pIndex]
      actualAmount == Min(amount, player.chips)
      p == [player EXCEPT !.chips = @ - actualAmount,
                          !.currentBet = @ + actualAmount,
                          !.isAllIn = (@ \/ player.chips - actualAmount = 0)]
      isRaise == p.currentBet > state.currentBet
      raiseDiff == p.currentBet - state.currentBet
  IN [state EXCEPT !.players = [state.players EXCEPT ![pIndex] = p],
                   !.pot = state.pot + actualAmount,
                   !.minBet = IF isRaise THEN Max(state.minBet, raiseDiff) ELSE @,
                   !.lastRaiserIndex = IF isRaise THEN pIndex ELSE @]

processPlayerAction(state, pIndex, amount) ==
  LET player == state.players[pIndex]
      actualAmount == Min(amount, player.chips)
      p == [player EXCEPT !.chips = @ - actualAmount,
                          !.currentBet = @ + actualAmount,
                          !.isAllIn = (@ \/ player.chips - actualAmount = 0)]
      isRaise == p.currentBet > state.currentBet
      raiseDiff == p.currentBet - state.currentBet
  IN [state EXCEPT !.players = [state.players EXCEPT ![pIndex] = p],
                   !.pot = state.pot + actualAmount,
                   !.currentBet = IF isRaise THEN p.currentBet ELSE @,
                   !.minBet = IF isRaise THEN Max(state.minBet, raiseDiff) ELSE @,
                   !.lastRaiserIndex = IF isRaise THEN pIndex ELSE @]

\* variant of the running-best step: a seat that equals the best score so far
\* is not added to the winners
BestStepFirstOnly(acc, i, evalResult) ==
  IF evalResult.score > acc.bestScore
  THEN [bestScore |-> evalResult.score, winners |-> {i},
        bestHandDesc |-> evalResult.description]
  ELSE acc

\* variant of the running-best step: the comparison is turned around, so the
\* lowest score is kept
BestStepLowest(acc, i, evalResult) ==
  IF acc.bestScore = -1 \/ evalResult.score < acc.bestScore
  THEN [bestScore |-> evalResult.score, winners |-> {i},
        bestHandDesc |-> evalResult.description]
  ELSE IF evalResult.score = acc.bestScore
       THEN [acc EXCEPT !.winners = @ \cup {i}]
       ELSE acc

\* one iteration of the running-best loop of handleShowdown for seat i:
\* acc = [bestScore, winners, bestHandDesc]
BestStep(acc, i, evalResult) ==
  IF evalResult.score > acc.bestScore
  THEN [bestScore |-> evalResult.score, winners |-> {i},
        bestHandDesc |-> evalResult.description]
  ELSE IF evalResult.score = acc.bestScore
       THEN [acc EXCEPT !.winners = @ \cup {i}]
       ELSE acc

\* variant of the running-best loop: every seat is evaluated, folded or not
RECURSIVE BestLoopAllSeats(_, _, _)
BestLoopAllSeats(state, i, acc) ==
  IF i >= NumSeats(state.players) THEN acc
  ELSE BestLoopAllSeats(state, i + 1,
                        BestStep(acc, i, evaluateHand(state.players[i].hand,
                                                      state.communityCards)))

\* activePlayers.forEach(...), over the active seats in seat order
RECURSIVE BestLoop(_, _, _)
BestLoop(state, i, acc) ==
  IF i >= NumSeats(state.players) THEN acc
  ELSE IF ~state.players[i].isActive THEN BestLoop(state, i + 1, acc)
  ELSE BestLoop(state, i + 1,
                BestStep(acc, i, evaluateHand(state.players[i].hand,
                                              state.communityCards)))

\* variant of the payout: the pot is emptied but no seat is credited
PayoutNoCredit(state, best) ==
  [state EXCEPT
     !.phase = "SHOWDOWN",
     !.pot = 0,
     !.lastPotSize = state.pot,
     !.winners = best.winners,
     !.winningHandDesc = best.bestHandDesc,
     !.handHistory = Append(state.handHistory,
                            [handNumber |-> state.handCount,
                             winnerNames |-> best.winners,
                             winAmount |-> state.pot,
                             winningHand |-> best.bestHandDesc])]

\* variant of the payout: every winner is credited the whole pot
PayoutWholePot(state, best) ==
  [state EXCEPT
     !.players = [i \in DOMAIN state.players |->
                    IF i \in best.winners
                    THEN [state.players[i] EXCEPT !.chips = @ + state.pot]
                    ELSE state.players[i]],
     !.phase = "SHOWDOWN",
     !.pot = 0,
     !.lastPotSize = state.pot,
     !.winners = best.winners,
     !.winningHandDesc = best.bestHandDesc,
     !.handHistory = Append(state.handHistory,
                            [handNumber |-> state.handCount,
                             winnerNames |-> best.winners,
                             winAmount |-> state.pot,
                             winningHand |-> best.bestHandDesc])]

\* variant of the payout: the history is replaced by the new entry
PayoutHistoryReplaced(state, best) ==
  [state EXCEPT
     !.players = [i \in DOMAIN state.players |->
                    IF i \in best.winners
                    THEN [state.players[i] EXCEPT
                            !.chips = @ + FloorDiv(state.pot, Cardinality(best.winners))]
                    ELSE state.players[i]],
     !.phase = "SHOWDOWN",
     !.pot = 0,
     !.lastPotSize = state.pot,
     !.winners = best.winners,
     !.winningHandDesc = best.bestHandDesc,
     !.handHistory = <<[handNumber |-> state.handCount,
                        winnerNames |-> best.winners,
                        winAmount |-> state.pot,
                        winningHand |-> best.bestHandDesc]>>]

\* the payout and the history entry of handleShowdown, given the loop's result
Payout(state, best) ==
  [state EXCEPT
     !.players = [i \in DOMAIN state.players |->
                    IF i \in best.winners
                    THEN [state.players[i] EXCEPT
                            !.chips = @ + FloorDiv(state.pot, Cardinality(best.winners))]
                    ELSE state.players[i]],
     !.phase = "SHOWDOWN",
     !.pot = 0,
     !.lastPotSize = state.pot,
     !.winners = best.winners,
     !.winningHandDesc = best.bestHandDesc,
     !.handHistory = Append(state.handHistory,
                            [handNumber |-> state.handCount,
                             winnerNames |-> best.winners,
                             winAmount |-> state.pot,
                             winningHand |-> best.bestHandDesc])]

handleShowdown(state) ==
  IF NumActive(state.players) = 0 THEN state
  ELSE Payout(state, BestLoop(state, 0, [bestScore |-> -1, winners |-> {},
                                         bestHandDesc |-> ""]))

\* the first-actor scan of nextPhase: bounded by safety < 10
RECURSIVE FirstActorScan(_, _, _)
FirstActorScan(nextPlayers, firstActor, safety) ==
  IF ~CanAct(nextPlayers[firstActor]) /\ safety < 10
  THEN FirstActorScan(nextPlayers, (firstActor + 1) % NumSeats(nextPlayers), safety + 1)
  ELSE firstActor

\* variant of the street chain: the chain wraps from SHOWDOWN to PRE_FLOP
NextGamePhaseWraps(phase) ==
  CASE phase = "PRE_FLOP" -> "FLOP"
    [] phase = "FLOP" -> "TURN"
    [] phase = "TURN" -> "RIVER"
    [] phase = "SHOWDOWN" -> "PRE_FLOP"
    [] OTHER -> phase

\* variant of the street chain: the flop is followed by the river
NextGamePhaseSkipsTurn(phase) ==
  CASE phase = "PRE_FLOP" -> "FLOP"
    [] phase = "FLOP" -> "RIVER"
    [] phase = "TURN" -> "RIVER"
    [] OTHER -> phase

\* the street that follows phase in nextPhase (RIVER goes to handleShowdown)
NextGamePhase(phase) ==
  CASE phase = "PRE_FLOP" -> "FLOP"
    [] phase = "FLOP" -> "TURN"
    [] phase = "TURN" -> "RIVER"
    [] OTHER -> phase

\* variant of nextPhase: one street is dealt per call, also when no seat can
\* act
nextPhaseOneStreet(state) ==
  LET players == state.players
      nextPlayers == [i \in DOMAIN players |-> [players[i] EXCEPT !.currentBet = 0]]
      phase == state.phase
      newCommunityCards ==
        CASE phase = "PRE_FLOP" ->
               state.communityCards \o
                 <<Popped(state.deck, 2), Popped(state.deck, 3), Popped(state.deck, 4)>>
          [] phase \in {"FLOP", "TURN"} ->
               Append(state.communityCards, Popped(state.deck, 2))
          [] OTHER -> state.communityCards
      newDeck == CASE phase = "PRE_FLOP" -> PopN(state.deck, 4)
                   [] phase \in {"FLOP", "TURN"} -> PopN(state.deck, 2)
                   [] OTHER -> state.deck
      firstActor == FirstActorScan(nextPlayers,
                                   (state.dealerIndex + 1) % NumSeats(players), 0)
  IN IF phase = "RIVER" THEN handleShowdown([state EXCEPT !.players = nextPlayers])
     ELSE [state EXCEPT !.phase = NextGamePhase(phase),
                        !.deck = newDeck,
                        !.communityCards = newCommunityCards,
                        !.players = nextPlayers,
                        !.currentBet = 0,
                        !.minBet = BIG_BLIND,
                        !.currentPlayerIndex = firstActor,
                        !.lastRaiserIndex = firstActor]

RECURSIVE nextPhase(_)
nextPhase(state) ==
  LET players == state.players
      nextPlayers == [i \in DOMAIN players |-> [players[i] EXCEPT !.currentBet = 0]]
      phase == state.phase
      nextGamePhase == NextGamePhase(phase)
      newCommunityCards ==
        CASE phase = "PRE_FLOP" ->
               state.communityCards \o
                 <<Popped(state.deck, 2), Popped(state.deck, 3), Popped(state.deck, 4)>>
          [] phase \in {"FLOP", "TURN"} ->
               Append(state.communityCards, Popped(state.deck, 2))
          [] OTHER -> state.communityCards
      newDeck == CASE phase = "PRE_FLOP" -> PopN(state.deck, 4)
                   [] phase \in {"FLOP", "TURN"} -> PopN(state.deck, 2)
                   [] OTHER -> state.deck
      firstActor == FirstActorScan(nextPlayers,
                                   (state.dealerIndex + 1) % NumSeats(players), 0)
      noActor == \A i \in DOMAIN nextPlayers : ~CanAct(nextPlayers[i])
      dealtState == [state EXCEPT !.phase = nextGamePhase,
                                  !.deck = newDeck,
                                  !.communityCards = newCommunityCards,
                                  !.players = nextPlayers,
                                  !.currentBet = 0,
                                  !.minBet = BIG_BLIND,
                                  !.currentPlayerIndex = firstActor,
                                  !.lastRaiserIndex = firstActor]
  IN IF phase = "RIVER" THEN handleShowdown([state EXCEPT !.players = nextPlayers])
     ELSE IF noActor /\ nextGamePhase # "SHOWDOWN" THEN nextPhase(dealtState)
     ELSE dealtState

\* variant of the seat scan: only folded seats are passed over
RECURSIVE TurnScanFoldedOnly(_, _, _)
TurnScanFoldedOnly(players, nextIndex, loopCount) ==
  IF ~players[nextIndex].isActive /\ loopCount < NumSeats(players)
  THEN TurnScanFoldedOnly(players, (nextIndex + 1) % NumSeats(players), loopCount + 1)
  ELSE <<nextIndex, loopCount>>

\* the seat scan of nextTurn: returns <<nextIndex, loopCount>>
RECURSIVE TurnScan(_, _, _)
TurnScan(players, nextIndex, loopCount) ==
  IF ~CanAct(players[nextIndex]) /\ loopCount < NumSeats(players)
  THEN TurnScan(players, (nextIndex + 1) % NumSeats(players), loopCount + 1)
  ELSE <<nextIndex, loopCount>>

\* variant of nextTurn: the seat the pointer moves to is also made the last
\* raiser
nextTurnMovesRaiser(state) ==
  LET n == NumSeats(state.players)
      scan == TurnScan(state.players, (state.currentPlayerIndex + 1) % n, 0)
      nextIndex == scan[1]
      loopCount == scan[2]
      playerToAct == state.players[nextIndex]
      isBetMatched == playerToAct.currentBet = state.currentBet
      endPhase == state.lastRaiserIndex = nextIndex /\ isBetMatched
  IN IF loopCount >= n THEN nextPhase(state)
     ELSE IF endPhase THEN nextPhase(state)
     ELSE [state EXCEPT !.currentPlayerIndex = nextIndex,
                        !.lastRaiserIndex = nextIndex]

nextTurn(state) ==
  LET n == NumSeats(state.players)
      scan == TurnScan(state.players, (state.currentPlayerIndex + 1) % n, 0)
      nextIndex == scan[1]
      loopCount == scan[2]
      playerToAct == state.players[nextIndex]
      isBetMatched == playerToAct.currentBet = state.currentBet
      endPhase == state.lastRaiserIndex = nextIndex /\ isBetMatched
  IN IF loopCount >= n THEN nextPhase(state)
     ELSE IF endPhase THEN nextPhase(state)
     ELSE [state EXCEPT !.currentPlayerIndex = nextIndex]

(***************************************************************************)
(* Inputs.  The stacks handed to the first setupNewHand and the outcomes   *)
(* of Math.random() in shuffleDeck are drawn from small sets.              *)
(***************************************************************************)
\* tables: the chips of the seats, seat 0 first (seat 0 is the human seat)
Tables == { <<15, 60>>, <<60, 0, 30>>, <<30, 50, 30>>, <<40, 40, 40, 40>> }

\* Math.random() outcomes of shuffleDeck, as the index drawn at each loop
\* index i (i itself where not listed, which leaves position i in place)
DrawsWith(over) == [i \in 1..51 |-> IF i \in DOMAIN over THEN over[i] ELSE i]

\* deals (popped first to last) 7c 2h As Ah 3c Qd Jd 9c 5h 4c 6s 2d ...
DrawsAcesVsSevenDeuce ==
  DrawsWith(51 :> 31 @@ 50 :> 0 @@ 49 :> 31 @@ 48 :> 12 @@ 47 :> 27 @@ 46 :> 23
            @@ 45 :> 22 @@ 44 :> 33 @@ 43 :> 3 @@ 42 :> 28 @@ 41 :> 3 @@ 40 :> 13)

\* deals (popped first to last) As Ks Ah Kh 3c Ad Kd 7c 5h 4c 6s 2d ...
DrawsTie ==
  DrawsWith(49 :> 12 @@ 48 :> 11 @@ 47 :> 27 @@ 46 :> 25 @@ 45 :> 24 @@ 44 :> 31
            @@ 43 :> 3 @@ 42 :> 28 @@ 41 :> 3 @@ 40 :> 13)

DrawSeqs == {DrawsAcesVsSevenDeuce, DrawsTie}

\* initGame: the seat records before the first hand
InitialPlayers(table) ==
  [i \in 0..(Len(table) - 1) |->
     [chips |-> table[i + 1], hand |-> <<>>, isHuman |-> (i = 0),
      isActive |-> TRUE, isAllIn |-> FALSE, currentBet |-> 0]]

TotalChips(players) == SumTo([i \in DOMAIN players |-> players[i].chips],
                             NumSeats(players) - 1)

(***************************************************************************)
(* services/gemini.ts.  An async function settles: [status |-> "fulfilled",*)
(* value |-> v] when it returns v, [status |-> "rejected"] when it throws. *)
(* What ai.models.generateContent does is the environment's choice.        *)
(***************************************************************************)
\* the call throws; response.text is empty; response.text is not JSON;
\* response.text is the service's answer
ServiceOutcomes == {"throws", "empty", "malformed", "answer"}

ApiKeys == {"", "key"}

\* the advice parsed from a well-formed answer
ServiceAdvice ==
  [action |-> "CALL", reasoning |-> "Position is power.", winProbability |-> "45%"]

ServiceBanter == "Nice hand, rookie."

Fulfilled(v) == [status |-> "fulfilled", value |-> v]

Rejected == [status |-> "rejected", value |-> ""]

\* variant of getPokerAdvice: the catch block throws the error on
getPokerAdviceRethrows(apiKey, outcome) ==
  IF apiKey = ""
  THEN Fulfilled([action |-> "Error",
                  reasoning |-> "API Key missing. Please configure process.env.API_KEY.",
                  winProbability |-> "Unknown"])
  ELSE IF outcome = "answer" THEN Fulfilled(ServiceAdvice)
  ELSE Rejected

\* getPokerAdvice: a thrown call, an empty text ("No response from AI") and
\* a JSON.parse error all end in the catch block
getPokerAdvice(apiKey, outcome) ==
  IF apiKey = ""
  THEN Fulfilled([action |-> "Error",
                  reasoning |-> "API Key missing. Please configure process.env.API_KEY.",
                  winProbability |-> "Unknown"])
  ELSE IF outcome = "answer" THEN Fulfilled(ServiceAdvice)
  ELSE Fulfilled([action |-> "Thinking...",
                  reasoning |-> "The coach is pondering the orb. (API Error)",
                  winProbability |-> "??%"])

\* generateOpponentBanter: any text is returned as it is
generateOpponentBanter(apiKey, outcome) ==
  IF apiKey = "" THEN Fulfilled("Let's play!")
  ELSE IF outcome = "throws" THEN Fulfilled("Your turn.")
  ELSE IF outcome = "empty" THEN Fulfilled("Check!")
  ELSE Fulfilled(ServiceBanter)

(***************************************************************************)
(* State: the driver's gameState, the driver's position (pc = "dealt":     *)
(* setupNewHand has just returned; pc = "act": the seat at the turn        *)
(* pointer is to act; pc = "turn": an action was applied and the deferred  *)
(* nextTurn is due), and the arguments of the last setupNewHand            *)
(* (handInput, a history variable: the seats' chips and dealerIdx).        *)
(* coachAdvice is the driver's coachAdvice (<<>> for null, <<advice>>      *)
(* otherwise) and banter its banter string.                                *)
(***************************************************************************)
VARIABLES gameState, pc, handInput, coachAdvice, banter

vars == <<gameState, pc, handInput, coachAdvice, banter>>

\* the arguments of setupNewHand that the history variable keeps
SetupArgs(currentPlayers, dealerIdx) ==
  [chips |-> [i \in DOMAIN currentPlayers |-> currentPlayers[i].chips],
   dealerIdx |-> dealerIdx]

\* the chips that were handed to the last setupNewHand
startChips == SumTo(handInput.chips, NumSeats(handInput.chips) - 1)

\* the driver is at a point where the seat at the turn pointer may act
ToAct == pc \in {"dealt", "act"}

BettingPhases == {"PRE_FLOP", "FLOP", "TURN", "RIVER"}

CurrentPlayer == gameState.players[gameState.currentPlayerIndex]

ToCall == gameState.currentBet - CurrentPlayer.currentBet

Init ==
  \E table \in Tables, draws \in DrawSeqs :
    \E dealerIdx \in -1..(Len(table) - 2) :
      /\ gameState = setupNewHand(InitialPlayers(table), dealerIdx, 0, <<>>,
                                  shuffleDeck(createDeck, draws))
      /\ pc = "dealt"
      /\ handInput = SetupArgs(InitialPlayers(table), dealerIdx)
      /\ coachAdvice = <<>>
      /\ banter = ""

\* handleAiTurn / handleHumanAction, CHECK and CALL: commit the amount to call
CheckCall ==
  /\ ToAct
  /\ gameState.phase \in BettingPhases
  /\ CanAct(CurrentPlayer)
  /\ gameState' = processPlayerAction(gameState, gameState.currentPlayerIndex, ToCall)
  /\ pc' = "turn"
  /\ UNCHANGED <<handInput, coachAdvice, banter>>

\* the amounts a RAISE commits: the call plus the minimum raise, or the stack
RaiseAmounts == {ToCall + gameState.minBet, CurrentPlayer.chips}

\* handleAiTurn / handleHumanAction, RAISE
Raise ==
  /\ ToAct
  /\ gameState.phase \in BettingPhases
  /\ CanAct(CurrentPlayer)
  /\ \E amount \in RaiseAmounts :
       gameState' = processPlayerAction(gameState, gameState.currentPlayerIndex, amount)
  /\ pc' = "turn"
  /\ UNCHANGED <<handInput, coachAdvice, banter>>

\* the FOLD branch: the seat's isActive is cleared
foldPlayer(state) ==
  [state EXCEPT !.players[state.currentPlayerIndex].isActive = FALSE]

\* handleAiTurn / handleHumanAction, FOLD: fold, then nextTurn in the same handler
Fold ==
  /\ ToAct
  /\ gameState.phase \in BettingPhases
  /\ CanAct(CurrentPlayer)
  /\ gameState' = nextTurn(foldPlayer(gameState))
  /\ pc' = "act"
  /\ UNCHANGED <<handInput, coachAdvice, banter>>

\* handleAiTurn on a seat that cannot act: nextTurn without an action
SkipTurn ==
  /\ ToAct
  /\ gameState.phase \in BettingPhases
  /\ ~CanAct(CurrentPlayer)
  /\ gameState' = nextTurn(gameState)
  /\ pc' = "act"
  /\ UNCHANGED <<handInput, coachAdvice, banter>>

\* the deferred setGameState(prev => GameEngine.nextTurn(prev))
AdvanceTurn ==
  /\ pc = "turn"
  /\ gameState' = nextTurn(gameState)
  /\ pc' = "act"
  /\ UNCHANGED <<handInput, coachAdvice, banter>>

\* a deferred nextTurn that fires when the hand is already at showdown (the
\* second of two actions entered before the first one's nextTurn ran)
TurnAfterShowdown ==
  /\ ToAct
  /\ gameState.phase = "SHOWDOWN"
  /\ gameState' = nextTurn(gameState)
  /\ pc' = "act"
  /\ UNCHANGED <<handInput, coachAdvice, banter>>

Next ==
  \/ CheckCall
  \/ Raise
  \/ Fold
  \/ SkipTurn
  \/ AdvanceTurn
  \/ TurnAfterShowdown

\* one hand, from any table, dealer position and shuffle of the input sets
Spec == Init /\ [][Next]_vars

(***************************************************************************)
(* A session: initGame, then hand after hand through startNewHand.         *)
(***************************************************************************)
\* the number of hands played in one session
MaxHands == 2

SessionTables == { <<15, 60>>, <<60, 0, 30>> }

\* initGame: setupNewHand(allPlayers, -1, 0, [])
SessionInit ==
  \E table \in SessionTables, draws \in DrawSeqs :
    /\ gameState = setupNewHand(InitialPlayers(table), -1, 0, <<>>,
                                shuffleDeck(createDeck, draws))
    /\ pc = "dealt"
    /\ handInput = SetupArgs(InitialPlayers(table), -1)
    /\ coachAdvice = <<>>
    /\ banter = ""

HumanSeat == CHOOSE i \in DOMAIN gameState.players : gameState.players[i].isHuman

\* startNewHand with the human still holding chips
StartNewHand ==
  /\ ToAct
  /\ gameState.phase = "SHOWDOWN"
  /\ gameState.handCount < MaxHands
  /\ gameState.players[HumanSeat].chips > 0
  /\ \E draws \in DrawSeqs :
       gameState' = setupNewHand(gameState.players, gameState.dealerIndex,
                                 gameState.handCount, gameState.handHistory,
                                 shuffleDeck(createDeck, draws))
  /\ handInput' = SetupArgs(gameState.players, gameState.dealerIndex)
  /\ coachAdvice' = <<>>
  /\ banter' = ""
  /\ pc' = "dealt"

\* startNewHand with the human out of chips
GameOver ==
  /\ ToAct
  /\ gameState.phase = "SHOWDOWN"
  /\ gameState.players[HumanSeat].chips <= 0
  /\ gameState' = [gameState EXCEPT !.phase = "GAME_OVER"]
  /\ pc' = "act"
  /\ UNCHANGED <<handInput, coachAdvice, banter>>

SessionNext ==
  \/ Next
  \/ StartNewHand
  \/ GameOver

SessionSpec == SessionInit /\ [][SessionNext]_vars

\* The steps of the driver, named by the change of its position pc, which is
\* all their enabling depends on.  Under Spec a step from "turn" to "act" is
\* AdvanceTurn, a step of a seat that can act to "turn" is CheckCall or Raise,
\* and a step from "dealt" to "act" on a seat that cannot act is SkipTurn.
DeferredTurnRuns == pc = "turn" /\ pc' = "act"

ActionApplied ==
  /\ ToAct
  /\ gameState.phase \in BettingPhases
  /\ CanAct(CurrentPlayer)
  /\ pc' = "turn"

IneligibleSkipped ==
  /\ pc = "dealt"
  /\ gameState.phase \in BettingPhases
  /\ ~CanAct(CurrentPlayer)
  /\ pc' = "act"

\* the driver keeps running: the deferred nextTurn of an applied action runs
\* (setTimeout), a seat that can act is given an action, and handleAiTurn
\* passes over a seat that cannot
FairSpec ==
  /\ Spec
  /\ WF_pc(DeferredTurnRuns)
  /\ WF_pc(ActionApplied)
  /\ WF_pc(IneligibleSkipped)

(***************************************************************************)
(* The 50 ms between a CHECK, CALL or RAISE and its deferred nextTurn.     *)
(* GameControls shows the action buttons while the seat at the pointer is  *)
(* the human's and active, and the pointer moves only when the deferred    *)
(* nextTurn runs; pc = "turn2" is the position with two of them pending.   *)
(***************************************************************************)
\* isHumanTurn of GameControls
isHumanTurn == CurrentPlayer.isHuman /\ CurrentPlayer.isActive

\* handleHumanAction, CHECK / CALL / RAISE, entered while the nextTurn of the
\* human's previous action is still pending
HumanActsAgain ==
  /\ pc = "turn"
  /\ gameState.phase \in BettingPhases
  /\ isHumanTurn
  /\ \E amount \in {ToCall} \cup RaiseAmounts :
       gameState' = processPlayerAction(gameState, gameState.currentPlayerIndex, amount)
  /\ pc' = "turn2"
  /\ UNCHANGED <<handInput, coachAdvice, banter>>

\* the first of two pending nextTurns runs
EarlierTurnRuns ==
  /\ pc = "turn2"
  /\ gameState' = nextTurn(gameState)
  /\ pc' = "turn"
  /\ UNCHANGED <<handInput, coachAdvice, banter>>

WindowNext ==
  \/ Next
  \/ HumanActsAgain
  \/ EarlierTurnRuns

WindowSpec == Init /\ [][WindowNext]_vars

(***************************************************************************)
(* One hand in which the seats that are not the human act as handleAiTurn  *)
(* makes them: on the decision getBotDecision returns.                     *)
(***************************************************************************)
\* the decisions getBotDecision can return for seat i, over the profiles
\* and the outcomes of Math.random()
DecisionsFrom(baseStrength, i) ==
  { Decide(baseStrength, gameState.players[i], gameState, profile, rolls) :
      profile \in BOT_PROFILES, rolls \in RollSets }

BotDecisions(i) == DecisionsFrom(HandStrength(gameState.players[i], gameState), i)

\* the AI effect has scheduled handleAiTurn for the seat at the pointer, and
\* the seat can act
BotToAct ==
  /\ ToAct
  /\ gameState.phase \in BettingPhases
  /\ ~CurrentPlayer.isHuman
  /\ CanAct(CurrentPlayer)

\* handleAiTurn, decision.action === 'FOLD'
BotFolds ==
  /\ BotToAct
  /\ \E d \in BotDecisions(gameState.currentPlayerIndex) : d.action = "FOLD"
  /\ gameState' = nextTurn(foldPlayer(gameState))
  /\ pc' = "act"
  /\ UNCHANGED <<handInput, coachAdvice, banter>>

\* handleAiTurn, decision.action === 'CHECK'
BotChecks ==
  /\ BotToAct
  /\ \E d \in BotDecisions(gameState.currentPlayerIndex) : d.action = "CHECK"
  /\ gameState' = processPlayerAction(gameState, gameState.currentPlayerIndex, 0)
  /\ pc' = "turn"
  /\ UNCHANGED <<handInput, coachAdvice, banter>>

\* handleAiTurn, decision.action === 'CALL'
BotCalls ==
  /\ BotToAct
  /\ \E d \in BotDecisions(gameState.currentPlayerIndex) : d.action = "CALL"
  /\ gameState' = processPlayerAction(gameState, gameState.currentPlayerIndex, ToCall)
  /\ pc' = "turn"
  /\ UNCHANGED <<handInput, coachAdvice, banter>>

\* handleAiTurn, decision.action === 'RAISE': toCall + (amount || minBet)
BotRaises ==
  /\ BotToAct
  /\ \E d \in BotDecisions(gameState.currentPlayerIndex) :
       /\ d.action = "RAISE"
       /\ gameState' = processPlayerAction(gameState, gameState.currentPlayerIndex,
                          ToCall + (IF d.amount # 0 THEN d.amount ELSE gameState.minBet))
  /\ pc' = "turn"
  /\ UNCHANGED <<handInput, coachAdvice, banter>>

\* handleHumanAction: the human's buttons
HumanCheckCall == CurrentPlayer.isHuman /\ CheckCall

HumanRaise == CurrentPlayer.isHuman /\ Raise

HumanFold == CurrentPlayer.isHuman /\ Fold

BotNext ==
  \/ HumanCheckCall
  \/ HumanRaise
  \/ HumanFold
  \/ BotFolds
  \/ BotChecks
  \/ BotCalls
  \/ BotRaises
  \/ SkipTurn
  \/ AdvanceTurn

BotSpec == Init /\ [][BotNext]_vars

(***************************************************************************)
(* Called-down hands: two seats with the starting stack, every action a    *)
(* check or a call, over deals that bring the hand categories to showdown. *)
(***************************************************************************)
STARTING_CHIPS == 1000

\* a tie on a board that also makes both seats a straight
\* seat 0: As Ks, seat 1: Ah Kh, board: Ad Kd Qc Jc 10d
DrawsTieBroadway ==
  DrawsWith(49 :> 12 @@ 48 :> 11 @@ 47 :> 0 @@ 46 :> 25 @@ 45 :> 24
            @@ 44 :> 36 @@ 43 :> 1 @@ 42 :> 35 @@ 41 :> 2 @@ 40 :> 21)

\* a tie on a board that makes both seats a full house
\* seat 0: As Ks, seat 1: Ah Kh, board: Ac Kc Kd 2s 2h
DrawsTieKingsFull ==
  DrawsWith(49 :> 12 @@ 48 :> 11 @@ 47 :> 1 @@ 46 :> 38 @@ 45 :> 37
            @@ 44 :> 24 @@ 43 :> 2 @@ 42 :> 39 @@ 41 :> 3 @@ 40 :> 0)

\* a tie on a board with two aces
\* seat 0: As Ks, seat 1: Ah Kh, board: Ad Ac Kd 9s 3h
DrawsTieAcesFull ==
  DrawsWith(49 :> 12 @@ 48 :> 11 @@ 47 :> 0 @@ 46 :> 25 @@ 45 :> 38
            @@ 44 :> 24 @@ 43 :> 2 @@ 42 :> 25 @@ 41 :> 3 @@ 40 :> 1)

\* the same pair with different kickers
\* seat 0: As Ks, seat 1: Ah Qh, board: Ad 7c 4c 2d 9s
DrawsKicker ==
  DrawsWith(49 :> 12 @@ 48 :> 10 @@ 47 :> 0 @@ 46 :> 25 @@ 45 :> 31
            @@ 44 :> 28 @@ 43 :> 1 @@ 42 :> 13 @@ 41 :> 2 @@ 40 :> 25)

\* four of a kind against a full house
\* seat 0: 9c 3h, seat 1: Ks Kh, board: 9s 9h 9d Kc 2d
DrawsQuadsVsFullHouse ==
  DrawsWith(51 :> 33 @@ 50 :> 1 @@ 49 :> 1 @@ 48 :> 11 @@ 47 :> 0 @@ 45 :> 7
            @@ 44 :> 20 @@ 43 :> 2 @@ 42 :> 37 @@ 41 :> 3 @@ 40 :> 13)

\* a flush against a straight
\* seat 0: Ah 3h, seat 1: 10s 2c, board: Kh 9h 4h Qc Js
DrawsFlushVsStraight ==
  DrawsWith(51 :> 12 @@ 50 :> 1 @@ 49 :> 47 @@ 48 :> 26 @@ 47 :> 0
            @@ 46 :> 11 @@ 45 :> 7 @@ 44 :> 2 @@ 43 :> 3 @@ 42 :> 36
            @@ 41 :> 4 @@ 40 :> 26)

\* three of a kind against two pair (three pairs in seven cards)
\* seat 0: 8h Ad, seat 1: Js 5d, board: 8s 8d 5c Jh 2s
DrawsTripsVsTwoPair ==
  DrawsWith(51 :> 6 @@ 50 :> 25 @@ 49 :> 48 @@ 48 :> 16 @@ 47 :> 0
            @@ 46 :> 45 @@ 45 :> 19 @@ 44 :> 29 @@ 43 :> 1 @@ 42 :> 9
            @@ 41 :> 2 @@ 40 :> 39)

\* a six-card run against the five-card run with the same top card
\* seat 0: 9s 4d, seat 1: 9d 2c, board: 8h 7c 6d 5s Kc
DrawsSixCardStraight ==
  DrawsWith(51 :> 46 @@ 50 :> 15 @@ 49 :> 20 @@ 48 :> 26 @@ 47 :> 0
            @@ 46 :> 6 @@ 45 :> 31 @@ 44 :> 17 @@ 43 :> 1 @@ 41 :> 2
            @@ 40 :> 37)

\* the wheel against a pair
\* seat 0: As 2d, seat 1: Kh 8d, board: 3c 4h 5s Kd 9c
DrawsWheel ==
  DrawsWith(50 :> 13 @@ 49 :> 11 @@ 48 :> 19 @@ 47 :> 0 @@ 46 :> 27
            @@ 45 :> 2 @@ 44 :> 42 @@ 43 :> 1 @@ 42 :> 24 @@ 41 :> 3
            @@ 40 :> 33)

\* a straight flush against an ace-high flush
\* seat 0: 9h 8h, seat 1: Ah 2c, board: 7h 6h 5h Kd 3s
DrawsStraightFlush ==
  DrawsWith(51 :> 7 @@ 50 :> 6 @@ 49 :> 12 @@ 48 :> 26 @@ 47 :> 0 @@ 46 :> 5
            @@ 45 :> 4 @@ 44 :> 3 @@ 43 :> 1 @@ 42 :> 24 @@ 41 :> 2)

\* two three-of-a-kinds against one
\* seat 0: Qs Qh, seat 1: Ac Kc, board: Qd 7s 7h 7d 2c
DrawsTwoTrips ==
  DrawsWith(51 :> 49 @@ 50 :> 10 @@ 49 :> 38 @@ 48 :> 37 @@ 47 :> 0
            @@ 46 :> 23 @@ 45 :> 44 @@ 44 :> 5 @@ 43 :> 1 @@ 42 :> 18
            @@ 41 :> 2 @@ 40 :> 26)

\* high card against high card, same top card
\* seat 0: Ks 9d, seat 1: Kh 8d, board: Qc 7s 5h 3d 2c
DrawsHighCards ==
  DrawsWith(51 :> 50 @@ 50 :> 20 @@ 49 :> 11 @@ 48 :> 19 @@ 47 :> 0
            @@ 46 :> 36 @@ 45 :> 44 @@ 44 :> 3 @@ 43 :> 1 @@ 42 :> 14
            @@ 41 :> 2 @@ 40 :> 26)

\* the deals of the called-down hands
ShowdownDraws ==
  {DrawsAcesVsSevenDeuce, DrawsTie, DrawsTieBroadway, DrawsTieKingsFull,
   DrawsTieAcesFull, DrawsKicker, DrawsQuadsVsFullHouse, DrawsFlushVsStraight,
   DrawsTripsVsTwoPair, DrawsSixCardStraight, DrawsWheel, DrawsStraightFlush,
   DrawsTwoTrips, DrawsHighCards}

\* initGame's stacks, on a table of two seats
CallDownTable == <<STARTING_CHIPS, STARTING_CHIPS>>

CallDownInit ==
  \E draws \in ShowdownDraws, dealerIdx \in {-1, 0} :
    /\ gameState = setupNewHand(InitialPlayers(CallDownTable), dealerIdx, 0, <<>>,
                                shuffleDeck(createDeck, draws))
    /\ pc = "dealt"
    /\ handInput = SetupArgs(InitialPlayers(CallDownTable), dealerIdx)
    /\ coachAdvice = <<>>
    /\ banter = ""

\* both seats check or call every street
CallDownNext ==
  \/ CheckCall
  \/ AdvanceTurn

CallDownSpec == CallDownInit /\ [][CallDownNext]_vars

(***************************************************************************)
(* The advisory calls of the driver, during called-down hands.             *)
(***************************************************************************)
\* getCoachHelp, from the await on: setCoachAdvice(advice) when
\* getPokerAdvice returned; nothing is set when it threw
CoachAdviceArrives ==
  /\ \E apiKey \in ApiKeys, outcome \in ServiceOutcomes :
       coachAdvice' =
         IF getPokerAdvice(apiKey, outcome).status = "fulfilled"
         THEN <<getPokerAdvice(apiKey, outcome).value>>
         ELSE coachAdvice
  /\ UNCHANGED <<gameState, pc, handInput, banter>>

\* the effect on phase RIVER: generateOpponentBanter(...).then(setBanter)
BanterArrives ==
  /\ gameState.phase = "RIVER"
  /\ \E apiKey \in ApiKeys, outcome \in ServiceOutcomes :
       banter' =
         IF generateOpponentBanter(apiKey, outcome).status = "fulfilled"
         THEN generateOpponentBanter(apiKey, outcome).value
         ELSE banter
  /\ UNCHANGED <<gameState, pc, handInput, coachAdvice>>

AdvisoryNext ==
  \/ CallDownNext
  \/ CoachAdviceArrives
  \/ BanterArrives

AdvisorySpec == CallDownInit /\ [][AdvisoryNext]_vars

(***************************************************************************)
(* Properties.                                                             *)
(***************************************************************************)
Seats == DOMAIN gameState.players

\* the seats of a state that may still act
Eligible(state) == {i \in DOMAIN state.players : CanAct(state.players[i])}

\* the states a nextTurn of this step may have been applied to: the current
\* one, or the current one with the seat at the pointer folded
TurnInputs == {gameState, foldPlayer(gameState)}

\* a step that pays the pot out
ShowdownStep == gameState.phase # "SHOWDOWN" /\ gameState'.phase = "SHOWDOWN"

\* C1: in every state of a hand that has not reached the showdown payout, the
\* seats' chips plus the pot equal the chips handed to setupNewHand
C1_PotConservation ==
  gameState.phase \in BettingPhases =>
    TotalChips(gameState.players) + gameState.pot = startChips

\* a river state after an action was applied, with a seat all-in and more
\* than the blinds in the pot
C1_Witness ==
  /\ gameState.phase = "RIVER"
  /\ pc = "turn"
  /\ gameState.pot > SMALL_BLIND + BIG_BLIND
  /\ \E i \in Seats : gameState.players[i].isAllIn

\* C2: if the driver keeps applying an action for the seat at the turn pointer
\* and then running nextTurn, the hand eventually reaches SHOWDOWN: no
\* infinite run of actions stays short of it
C2_ReachesShowdown ==
  []<>(pc = "turn") => <>(gameState.phase = "SHOWDOWN")

HandCategories ==
  {"High Card", "Pair", "Two Pair", "Three of a Kind", "Straight", "Flush",
   "Full House", "Four of a Kind"}

\* four seats were dealt in, three have folded, and the nextTurn that follows
\* the last fold has run
FoldedOut ==
  /\ NumSeats(gameState.players) = 4
  /\ \A i \in Seats : Len(gameState.players[i].hand) = 2
  /\ Cardinality({i \in Seats : gameState.players[i].isActive}) = 1
  /\ pc = "act"

\* C3: with four seats dealt in, once three have folded the remaining seat has
\* won the whole pot at once: the hand is at SHOWDOWN, the pot is paid to that
\* seat alone, and the history names a reason that is not a hand category
C3_FoldOutWins ==
  FoldedOut =>
    /\ gameState.phase = "SHOWDOWN"
    /\ gameState.pot = 0
    /\ gameState.winners = {i \in Seats : gameState.players[i].isActive}
    /\ gameState.winningHandDesc \notin HandCategories

\* C4: nextTurn never leaves the turn pointer on a folded or all-in seat while
\* a seat that can act exists, and with no such seat it returns nextPhase's
\* result
C4_TurnSkipsIneligible ==
  [][\A s \in TurnInputs :
       gameState' = nextTurn(s) =>
         /\ (Eligible(s) = {} => gameState' = nextPhase(s))
         /\ (gameState'.phase \in BettingPhases /\ Eligible(gameState') # {}
               => gameState'.currentPlayerIndex \in Eligible(gameState'))]_vars

\* pre-flop (so the pointer was set by nextTurn's own scan), the pointer is on
\* a seat that can act and the seat before it was passed over as all-in
C4_Witness ==
  /\ pc = "act"
  /\ gameState.phase = "PRE_FLOP"
  /\ CanAct(CurrentPlayer)
  /\ LET n == NumSeats(gameState.players)
         before == gameState.players[(gameState.currentPlayerIndex + n - 1) % n]
     IN before.isActive /\ before.isAllIn

\* the seats that held chips when setupNewHand was called
Holders == {i \in DOMAIN handInput.chips : handInput.chips[i] > 0}

\* seat i has posted the blind (as much of it as its chips allowed)
Posted(i, blind) ==
  /\ gameState.players[i].currentBet = Min(blind, handInput.chips[i])
  /\ gameState.players[i].chips = handInput.chips[i] - Min(blind, handInput.chips[i])

\* the small blind was posted by sb, the big blind by bb, and nothing by others
BlindsBy(sb, bb) ==
  /\ Posted(sb, SMALL_BLIND)
  /\ Posted(bb, BIG_BLIND)
  /\ \A i \in Seats \ {sb, bb} : Posted(i, 0)

\* C5: after setupNewHand, with exactly two seats holding chips the dealer
\* seat has posted the small blind and the other seat holding chips the big
\* blind; with three or more, seats dealer+1 and dealer+2 have posted them
C5_HeadsUpBlinds ==
  pc = "dealt" =>
    LET n == NumSeats(gameState.players)
        d == gameState.dealerIndex
    IN /\ (Cardinality(Holders) = 2 => \E o \in Holders \ {d} : BlindsBy(d, o))
       /\ (Cardinality(Holders) >= 3 => BlindsBy((d + 1) % n, (d + 2) % n))

\* C6: a showdown with k >= 1 winners and pot P credits each winner
\* floor(P / k), credits no other seat and empties the pot, so the chips in
\* play drop by P mod k
C6_ShowdownPayout ==
  [][ShowdownStep =>
       LET P == gameState.pot
           W == gameState'.winners
           k == Cardinality(W)
       IN /\ k >= 1
          /\ \A i \in Seats :
               gameState'.players[i].chips =
                 gameState.players[i].chips + (IF i \in W THEN P \div k ELSE 0)
          /\ gameState'.pot = 0
          /\ TotalChips(gameState'.players) + gameState'.pot =
               TotalChips(gameState.players) + P - (P % k)]_vars

\* a showdown that split an odd pot between two winners
C6_Witness ==
  /\ gameState.phase = "SHOWDOWN"
  /\ Cardinality(gameState.winners) = 2
  /\ gameState.lastPotSize % 2 = 1

\* C7: in every reachable state, the showdown's result included, a seat
\* flagged all-in holds no chips
C7_AllInHoldsNoChips ==
  \A i \in Seats : gameState.players[i].isAllIn => gameState.players[i].chips = 0

\* C8: at showdown every winner is an active seat and no folded seat's chips
\* change
C8_FoldedNeverPaid ==
  [][ShowdownStep =>
       /\ \A i \in gameState'.winners : gameState'.players[i].isActive
       /\ \A i \in Seats :
            ~gameState'.players[i].isActive =>
              gameState'.players[i].chips = gameState.players[i].chips]_vars

\* the score of seat i's hand on the board of the current state
ScoreOf(i) == evaluateHand(gameState.players[i].hand, gameState.communityCards).score

\* a showdown in which a folded seat held a hand that beats the winners'
C8_Witness ==
  /\ gameState.phase = "SHOWDOWN"
  /\ \E i \in Seats :
       /\ ~gameState.players[i].isActive
       /\ Len(gameState.players[i].hand) = 2
       /\ \A w \in gameState.winners : ScoreOf(i) > ScoreOf(w)

\* C9: processPlayerAction never lowers minBet, and a step that lowers it is
\* a nextPhase, which sets it to BIG_BLIND
C9_MinBetMonotone ==
  [][/\ (pc' = "turn" => gameState'.minBet >= gameState.minBet)
     /\ (gameState'.minBet < gameState.minBet =>
           /\ gameState'.minBet = BIG_BLIND
           /\ \E s \in TurnInputs : gameState' = nextPhase(s))]_vars

\* an action was applied and the minimum raise stands above the big blind
C9_Witness ==
  /\ pc = "turn"
  /\ gameState.minBet > BIG_BLIND

\* the position of a phase in the chain PRE_FLOP .. SHOWDOWN
PhaseRank(phase) ==
  CASE phase = "PRE_FLOP" -> 0
    [] phase = "FLOP" -> 1
    [] phase = "TURN" -> 2
    [] phase = "RIVER" -> 3
    [] phase = "SHOWDOWN" -> 4
    [] OTHER -> 5

\* C10: apart from the driver's startNewHand (setupNewHand, or GAME_OVER), a
\* step never moves the phase backwards in the chain PRE_FLOP, FLOP, TURN,
\* RIVER, SHOWDOWN, and never changes it once it is SHOWDOWN
C10_PhaseForward ==
  [][\/ StartNewHand
     \/ GameOver
     \/ /\ PhaseRank(gameState'.phase) >= PhaseRank(gameState.phase)
        /\ (gameState.phase = "SHOWDOWN" => gameState'.phase = "SHOWDOWN")]_vars

\* the second hand of a session has reached its showdown
C10_Witness ==
  /\ gameState.phase = "SHOWDOWN"
  /\ Len(gameState.handHistory) = 2

\* the amounts the driver hands to processPlayerAction for the seat at the
\* turn pointer: the call, or one of the raises
ActionAmounts == {ToCall} \cup RaiseAmounts

\* C11: no seat's chips are ever negative, and a processPlayerAction with an
\* amount above the seat's chips commits exactly those chips: the seat's
\* chips become 0, its bet and the pot grow by the chips it had, and it is
\* all-in
C11_OverCommitCapped ==
  /\ [](\A i \in Seats : gameState.players[i].chips >= 0)
  /\ [][\A amount \in ActionAmounts :
          ( /\ pc' = "turn"
            /\ amount > CurrentPlayer.chips
            /\ gameState' = processPlayerAction(gameState,
                                                gameState.currentPlayerIndex, amount) )
          => LET i == gameState.currentPlayerIndex
                 had == CurrentPlayer.chips
             IN /\ gameState'.players[i].chips = 0
                /\ gameState'.players[i].isAllIn
                /\ gameState'.players[i].currentBet = CurrentPlayer.currentBet + had
                /\ gameState'.pot = gameState.pot + had]_vars

\* an action was applied and left the acting seat all-in below the bet to
\* match: it asked for more than the seat held
C11_Witness ==
  /\ pc = "turn"
  /\ CurrentPlayer.isAllIn
  /\ CurrentPlayer.currentBet < gameState.currentBet

Card(rank, suit) == [suit |-> suit, rank |-> rank]

CardsOf(cards) == {cards[i] : i \in DOMAIN cards}

\* the hole cards of seat i are exactly the two given cards
Holds(i, c1, c2) == CardsOf(gameState.players[i].hand) = {c1, c2}

\* the result of evaluateHand for seat i on the board of the current state
EvalOf(i) == evaluateHand(gameState.players[i].hand, gameState.communityCards)

\* Seat A of the scenario is the seat dealt As Ah, Seat B the other seat;
\* either may be the dealer
SeatA == CHOOSE i \in Seats : Holds(i, Card("A", "S"), Card("A", "H"))

SeatB == 1 - SeatA

\* the hand of the scenario, called down to its showdown: stacks of 1000,
\* Seat A with As Ah, Seat B with 7c 2h, board Qd Jd 9c 4c 2d
AcesScenarioShowdown ==
  /\ NumSeats(gameState.players) = 2
  /\ \A i \in Seats : handInput.chips[i] = STARTING_CHIPS
  /\ \E i \in Seats : Holds(i, Card("A", "S"), Card("A", "H"))
  /\ Holds(SeatB, Card("7", "C"), Card("2", "H"))
  /\ gameState.communityCards =
       <<Card("Q", "D"), Card("J", "D"), Card("9", "C"), Card("4", "C"),
         Card("2", "D")>>
  /\ gameState.phase = "SHOWDOWN"

\* C12: in the scenario evaluateHand ranks A's pair of aces above B's pair of
\* twos, the pot at showdown is 40, and Seat A alone wins all of it
C12_AcesBeatSevenDeuce ==
  AcesScenarioShowdown =>
    /\ EvalOf(SeatA) = [score |-> 1014, description |-> "Pair"]
    /\ EvalOf(SeatB) = [score |-> 1002, description |-> "Pair"]
    /\ EvalOf(SeatA).score > EvalOf(SeatB).score
    /\ gameState.lastPotSize = 40
    /\ gameState.winners = {SeatA}
    /\ gameState.pot = 0
    /\ gameState.players[SeatB].chips = STARTING_CHIPS - BIG_BLIND
    /\ TotalChips(gameState.players) = 2 * STARTING_CHIPS

\* the scenario's showdown, with the history entry of the hand written
C12_Witness ==
  /\ AcesScenarioShowdown
  /\ Len(gameState.handHistory) = 1

\* C13 as the specification words it: after the payout Seat A holds 1010
C13_ChipCountAsSpecified ==
  AcesScenarioShowdown => gameState.players[SeatA].chips = 1010

\* C13: in the scenario Seat A holds 1020 chips after the payout: the 1000
\* it started with, less the 20 it put in, plus the pot of 40
C13_ChipCount ==
  AcesScenarioShowdown =>
    gameState.players[SeatA].chips = STARTING_CHIPS - 20 + 40

\* the scenario's showdown, with Seat B down to 980
C13_Witness ==
  /\ AcesScenarioShowdown
  /\ gameState.players[SeatB].chips = 980

RECURSIVE SetToSeq(_)
\* the elements of a finite set, in some order
SetToSeq(S) ==
  IF S = {} THEN <<>>
  ELSE LET x == CHOOSE y \in S : TRUE IN <<x>> \o SetToSeq(S \ {x})

\* the seven cards of a seat hold five or more of one suit
HasFlush(holeCards, communityCards) ==
  \E s \in CardsOf(SUITS) :
    Cardinality({c \in CardsOf(holeCards) \cup CardsOf(communityCards) : c.suit = s}) >= 5

\* the board holds an ace and a king
PairsAceAndKing(communityCards) ==
  /\ \E c \in CardsOf(communityCards) : c.rank = "A"
  /\ \E c \in CardsOf(communityCards) : c.rank = "K"

TieHoleA == <<Card("A", "S"), Card("K", "S")>>

TieHoleB == <<Card("A", "H"), Card("K", "H")>>

\* the cards the sample boards of the tie are drawn from
TieBoardPool ==
  {Card("A", "D"), Card("A", "C"), Card("K", "D"), Card("K", "C"),
   Card("Q", "C"), Card("J", "C"), Card("10", "D"), Card("9", "S"),
   Card("7", "C"), Card("3", "H"), Card("2", "S"), Card("2", "H")}

\* every board of five pool cards with an ace and a king that gives neither
\* seat a flush
TieBoards ==
  {b \in {SetToSeq(S) : S \in {T \in SUBSET TieBoardPool : Cardinality(T) = 5}} :
     /\ PairsAceAndKing(b)
     /\ ~HasFlush(TieHoleA, b)
     /\ ~HasFlush(TieHoleB, b)}

\* two active seats hold As Ks and Ah Kh
TieHands ==
  /\ NumSeats(gameState.players) = 2
  /\ \A i \in Seats : gameState.players[i].isActive
  /\ \E i \in Seats :
       /\ Holds(i, TieHoleA[1], TieHoleA[2])
       /\ Holds(1 - i, TieHoleB[1], TieHoleB[2])

\* C14: with As Ks against Ah Kh, on any board with an ace and a king and no
\* flush for either seat the two hands score the same, and the showdown of
\* such a hand names both seats winners and credits each floor(pot / 2)
C14_TieSplitsPot ==
  /\ [](gameState.phase = "SHOWDOWN" /\ TieHands =>
          \A b \in TieBoards : evaluateHand(TieHoleA, b) = evaluateHand(TieHoleB, b))
  /\ [][( /\ ShowdownStep
           /\ TieHands
           /\ PairsAceAndKing(gameState'.communityCards)
           /\ \A i \in Seats :
                ~HasFlush(gameState.players[i].hand, gameState'.communityCards) )
         => /\ gameState'.winners = Seats
            /\ \A i \in Seats :
                 gameState'.players[i].chips =
                   gameState.players[i].chips + (gameState.pot \div 2)]_vars

\* a showdown of As Ks against Ah Kh on a board with an ace and a king that
\* makes both seats a full house
C14_Witness ==
  /\ gameState.phase = "SHOWDOWN"
  /\ TieHands
  /\ PairsAceAndKing(gameState.communityCards)
  /\ gameState.winningHandDesc = "Full House"
  /\ gameState.winners = Seats
  /\ \A i \in Seats : gameState.players[i].chips = STARTING_CHIPS

\* the hands of the session that have reached their showdown
FinishedHands ==
  IF gameState.phase \in {"SHOWDOWN", "GAME_OVER"}
  THEN gameState.handCount
  ELSE gameState.handCount - 1

\* C15: handHistory holds one entry per hand that reached SHOWDOWN, numbered
\* 1..k in order; the step into SHOWDOWN appends one entry carrying handCount
\* and the pot before the payout, and no other step changes handHistory
C15_HistoryAppendOnly ==
  /\ [](/\ Len(gameState.handHistory) = FinishedHands
        /\ \A j \in DOMAIN gameState.handHistory :
             gameState.handHistory[j].handNumber = j)
  /\ [][IF ShowdownStep
        THEN /\ Len(gameState'.handHistory) = Len(gameState.handHistory) + 1
             /\ SubSeq(gameState'.handHistory, 1, Len(gameState.handHistory)) =
                  gameState.handHistory
             /\ gameState'.handHistory[Len(gameState'.handHistory)].handNumber =
                  gameState.handCount
             /\ gameState'.handHistory[Len(gameState'.handHistory)].winAmount =
                  gameState.pot
        ELSE gameState'.handHistory = gameState.handHistory]_vars

\* the showdown of a second hand, both hands with chips in the pot
C15_Witness ==
  /\ gameState.phase = "SHOWDOWN"
  /\ gameState.handCount = 2
  /\ Len(gameState.handHistory) = 2
  /\ \A j \in 1..2 : gameState.handHistory[j].winAmount > 0

\* the categories of evaluateHand, weakest first
CategoryOrder ==
  <<"High Card", "Pair", "Two Pair", "Three of a Kind", "Straight", "Flush",
    "Full House", "Four of a Kind">>

CategoryRank(description) ==
  CHOOSE k \in DOMAIN CategoryOrder : CategoryOrder[k] = description

\* the cards the sample card sets are drawn from: the four aces, three twos,
\* and spades that complete a flush and the wheel
SamplePool ==
  {Card("A", "S"), Card("A", "H"), Card("A", "D"), Card("A", "C"),
   Card("K", "S"),
   Card("2", "S"), Card("2", "H"), Card("2", "D"),
   Card("3", "S"), Card("4", "S"), Card("5", "S")}

MaxCards == 7

\* every set of one to seven cards of the pool
SampleSets == {S \in SUBSET SamplePool : Cardinality(S) \in 1..MaxCards}

\* evaluateHand on each sample card set
SampleResult == [S \in SampleSets |-> evaluateHand(SetToSeq(S), <<>>)]

\* the results of evaluateHand on the sample card sets
SampleEvals == {SampleResult[S] : S \in SampleSets}

\* the results of evaluateHand for the seats dealt into the current hand
SeatEvals == {EvalOf(i) : i \in {j \in Seats : gameState.players[j].hand # <<>>}}

\* C16: of two card sets that evaluateHand puts into different categories,
\* the one in the higher category has the strictly greater score
C16_ClassOrdering ==
  \A x \in SampleEvals \cup SeatEvals, y \in SampleEvals \cup SeatEvals :
    CategoryRank(x.description) > CategoryRank(y.description) => x.score > y.score

\* a showdown of four of a kind against a full house, with every category
\* among the samples
C16_Witness ==
  /\ gameState.phase = "SHOWDOWN"
  /\ {EvalOf(i).description : i \in Seats} = {"Four of a Kind", "Full House"}
  /\ gameState.winningHandDesc = "Four of a Kind"
  /\ {x.description : x \in SampleEvals} = CardsOf(CategoryOrder)

(***************************************************************************)
(* The yardstick of C17: the strength of the best five-card hand under the *)
(* rules of poker, as a key <<category, ranked values ...>> compared       *)
(* lexicographically.  It is written from the rules, not from the code.    *)
(***************************************************************************)
FiveCardHands(cards) == {S \in SUBSET CardsOf(cards) : Cardinality(S) = 5}

CountIn(S, v) == Cardinality({c \in S : getCardValue(c) = v})

ValuesIn(S) == {getCardValue(c) : c \in S}

SetMax(V) == CHOOSE v \in V : \A w \in V : w <= v

SetMin(V) == CHOOSE v \in V : \A w \in V : v <= w

IsFlushFive(S) == Cardinality({c.suit : c \in S}) = 1

\* the top card of the five cards' straight, 5 for the wheel, 0 without one
StraightFiveHigh(S) ==
  IF Cardinality(ValuesIn(S)) # 5 THEN 0
  ELSE IF SetMax(ValuesIn(S)) - SetMin(ValuesIn(S)) = 4 THEN SetMax(ValuesIn(S))
  ELSE IF ValuesIn(S) = {14, 2, 3, 4, 5} THEN 5
  ELSE 0

\* the category of five cards, as an index of CategoryOrder (a straight flush
\* is left with the flushes)
CategoryOfFive(S) ==
  IF \E v \in ValuesIn(S) : CountIn(S, v) = 4 THEN 8
  ELSE IF Cardinality(ValuesIn(S)) = 2 THEN 7
  ELSE IF IsFlushFive(S) THEN 6
  ELSE IF StraightFiveHigh(S) # 0 THEN 5
  ELSE IF \E v \in ValuesIn(S) : CountIn(S, v) = 3 THEN 4
  ELSE IF Cardinality(ValuesIn(S)) = 3 THEN 3
  ELSE IF Cardinality(ValuesIn(S)) = 4 THEN 2
  ELSE 1

RECURSIVE RankedValues(_, _)
\* the values V of the five cards S, those held more often first, the higher
\* first among those held equally often
RankedValues(S, V) ==
  IF V = {} THEN <<>>
  ELSE LET v == CHOOSE x \in V :
                  \A w \in V : CountIn(S, w) * 100 + w <= CountIn(S, x) * 100 + x
       IN <<v>> \o RankedValues(S, V \ {v})

StrengthOfFive(S) ==
  IF CategoryOfFive(S) = 5 THEN <<5, StraightFiveHigh(S)>>
  ELSE <<CategoryOfFive(S)>> \o RankedValues(S, ValuesIn(S))

\* key a beats key b
Beats(a, b) ==
  \E k \in 1..Min(Len(a), Len(b)) :
    /\ a[k] > b[k]
    /\ \A j \in 1..(k - 1) : a[j] = b[j]

\* the strength of the best five-card hand among the cards
BestStrength(cards) ==
  CHOOSE k \in {StrengthOfFive(S) : S \in FiveCardHands(cards)} :
    \A S \in FiveCardHands(cards) : ~Beats(StrengthOfFive(S), k)

HasStraightFlush(cards) ==
  \E S \in FiveCardHands(cards) : IsFlushFive(S) /\ StraightFiveHigh(S) # 0

\* the cards of seat i: hole cards and board
AllCardsOf(i) == gameState.players[i].hand \o gameState.communityCards

\* the seats whose cards make a five-card hand that is not a straight flush
Comparable ==
  {i \in Seats : /\ gameState.players[i].hand # <<>>
                  /\ Len(AllCardsOf(i)) >= 5
                  /\ ~HasStraightFlush(AllCardsOf(i))}

\* C17: between the card sets of two seats, the greater score belongs to the
\* better best five-card hand, and equal scores to hands that tie card for
\* card, kickers included
C17_ScoreMatchesStrength ==
  \A i \in Comparable, j \in Comparable :
    /\ ScoreOf(i) > ScoreOf(j) =>
         Beats(BestStrength(AllCardsOf(i)), BestStrength(AllCardsOf(j)))
    /\ ScoreOf(i) = ScoreOf(j) =>
         BestStrength(AllCardsOf(i)) = BestStrength(AllCardsOf(j))

\* the cards split into hole cards (the first k) and community cards
EvalSplit(cards, k) ==
  evaluateHand(SubSeq(cards, 1, k), SubSeq(cards, k + 1, Len(cards)))

RECURSIVE Orderings(_)
\* every ordering of the cards of a set
Orderings(S) ==
  IF S = {} THEN {<<>>}
  ELSE UNION {{<<x>> \o p : p \in Orderings(S \ {x})} : x \in S}

\* the cards the permuted samples are drawn from
PermutePool ==
  {Card("A", "S"), Card("K", "S"), Card("Q", "S"), Card("J", "S"),
   Card("10", "S"), Card("A", "H")}

MaxPermuted == 5

PermuteSets == {S \in SUBSET PermutePool : Cardinality(S) \in 2..MaxPermuted}

\* every ordering and every split of every sample set evaluates alike
SamplesOrderIndependent ==
  \A S \in PermuteSets : \A p \in Orderings(S), k \in 0..Cardinality(S) :
    EvalSplit(p, k) = evaluateHand(SetToSeq(S), <<>>)

\* C18: evaluateHand returns the same score and category for every ordering
\* of the cards and every split of them into hole and community cards: for
\* all orderings of the sample sets, and for every exchange of two cards of a
\* seat's hole cards and board
C18_OrderIndependent ==
  /\ SamplesOrderIndependent
  /\ \A i \in {j \in Seats : gameState.players[j].hand # <<>>} :
       \A a \in DOMAIN AllCardsOf(i), b \in DOMAIN AllCardsOf(i), k \in 0..Len(AllCardsOf(i)) :
         a <= b => EvalSplit(Swap(AllCardsOf(i), a, b), k) = EvalOf(i)

\* a river state in which the board, dealt after the hole cards, holds a
\* seat's highest card and completes its flush
C18_Witness ==
  /\ gameState.phase = "RIVER"
  /\ \E i \in Seats :
       /\ EvalOf(i).description = "Flush"
       /\ evaluateHand(gameState.players[i].hand, <<>>).description = "High Card"
       /\ \E c \in CardsOf(gameState.communityCards) :
            \A h \in CardsOf(gameState.players[i].hand) : getCardValue(c) > getCardValue(h)

\* The categories a set of cards makes, read off the cards: S holds ...
\* four cards of one value
MakesFour(S) == \E v \in ValuesIn(S) : CountIn(S, v) >= 4

\* three of one value and two or three of another
MakesFullHouse(S) ==
  \E v \in ValuesIn(S), w \in ValuesIn(S) :
    v # w /\ CountIn(S, v) >= 3 /\ CountIn(S, w) >= 2

\* five or more cards of one suit
MakesFlush(S) == \E c \in S : Cardinality({d \in S : d.suit = c.suit}) >= 5

\* five values in a row, the ace also below the two
MakesStraight(S) ==
  \E low \in 1..10 :
    \A v \in low..(low + 4) : (IF v = 1 THEN 14 ELSE v) \in ValuesIn(S)

MakesThree(S) == \E v \in ValuesIn(S) : CountIn(S, v) >= 3

MakesTwoPair(S) == Cardinality({v \in ValuesIn(S) : CountIn(S, v) >= 2}) >= 2

MakesPair(S) == \E v \in ValuesIn(S) : CountIn(S, v) >= 2

\* the first category, in the priority of "Detect Hands", that S makes
FirstCategory(S) ==
  IF MakesFour(S) THEN "Four of a Kind"
  ELSE IF MakesFullHouse(S) THEN "Full House"
  ELSE IF MakesFlush(S) THEN "Flush"
  ELSE IF MakesStraight(S) THEN "Straight"
  ELSE IF MakesThree(S) THEN "Three of a Kind"
  ELSE IF MakesTwoPair(S) THEN "Two Pair"
  ELSE IF MakesPair(S) THEN "Pair"
  ELSE "High Card"

\* every sample card set is given the first category it makes
SamplesFirstCategory ==
  \A S \in SampleSets : SampleResult[S].description = FirstCategory(S)

ActiveSeats == {i \in Seats : gameState.players[i].isActive}

\* C20: determineWinner returns, once each, exactly the active players whose
\* score on the community cards is the highest among the active players; a
\* folded player is never returned and a single active player is
C20_DetermineWinner ==
  LET result == determineWinner(gameState.players, gameState.communityCards)
  IN /\ CardsOf(result) =
          {i \in ActiveSeats : \A j \in ActiveSeats : ScoreOf(i) >= ScoreOf(j)}
     /\ Len(result) = Cardinality(CardsOf(result))
     /\ \A i \in Seats : ~gameState.players[i].isActive => i \notin CardsOf(result)
     /\ \A i \in Seats : ActiveSeats = {i} => result = <<i>>

\* a river state with a folded seat whose cards beat those of the two seats
\* still in, only one of which determineWinner returns
C20_Witness ==
  /\ gameState.phase = "RIVER"
  /\ Cardinality(ActiveSeats) = 2
  /\ Len(determineWinner(gameState.players, gameState.communityCards)) = 1
  /\ \E i \in Seats \ ActiveSeats :
       /\ gameState.players[i].hand # <<>>
       /\ \A j \in ActiveSeats : ScoreOf(i) > ScoreOf(j)

\* C21: with fewer than five cards in all, evaluateHand returns a High Card
\* result, whatever the ranks: for every sample set of fewer than five cards
\* and for the hole cards of every seat before the flop
C21_FewCardsHighCard ==
  /\ \A S \in SampleSets : Cardinality(S) < 5 => SampleResult[S].description = "High Card"
  /\ \A i \in {j \in Seats : gameState.players[j].hand # <<>>} :
       Len(AllCardsOf(i)) < 5 =>
         /\ EvalOf(i).description = "High Card"
         /\ EvalOf(i).score = Max(getCardValue(gameState.players[i].hand[1]),
                                  getCardValue(gameState.players[i].hand[2]))

\* every two-card hand of the deck, in both orders
StartingHands == {<<createDeck[a], createDeck[b]>> : a, b \in 1..52} \
                 {<<createDeck[a], createDeck[a]>> : a \in 1..52}

\* the grade the thresholds give a score
GradeAt(score) ==
  CASE score >= 20 -> "S"
    [] score >= 15 /\ score < 20 -> "A"
    [] score >= 10 /\ score < 15 -> "B"
    [] score >= 7 /\ score < 10 -> "C"
    [] score >= 5 /\ score < 7 -> "D"
    [] score < 5 -> "F"

\* what C22 says of the hand h
GradedByThresholds(h) ==
  /\ gradeStartingHand(h).grade = GradeAt(gradeStartingHand(h).score)
  /\ (h[1].rank = "A" /\ h[2].rank = "A") => gradeStartingHand(h).grade = "S"
  /\ ({h[1].rank, h[2].rank} = {"7", "2"} /\ h[1].suit # h[2].suit)
       => gradeStartingHand(h).grade = "F"
  /\ gradeStartingHand(<<h[2], h[1]>>) = gradeStartingHand(h)

AllStartingHandsGraded == \A h \in StartingHands : GradedByThresholds(h)

C23_OneActionPerTurn ==
  [][pc = "turn" => (pc' = "act" /\ gameState' = nextTurn(gameState))]_vars

\* the fixed values the advisory functions fall back on
AdviceFallbacks ==
  {[action |-> "Error",
    reasoning |-> "API Key missing. Please configure process.env.API_KEY.",
    winProbability |-> "Unknown"],
   [action |-> "Thinking...",
    reasoning |-> "The coach is pondering the orb. (API Error)",
    winProbability |-> "??%"]}

BanterFallbacks == {"Let's play!", "Your turn.", "Check!"}

\* there is no key, or the call gave no advice that can be parsed
AdviceFailed(apiKey, outcome) == apiKey = "" \/ outcome # "answer"

\* there is no key, or the call gave no text (any text serves as banter)
BanterFailed(apiKey, outcome) == apiKey = "" \/ outcome \in {"throws", "empty"}

\* C24: whatever the service does, getPokerAdvice and generateOpponentBanter
\* return instead of throwing, with a fixed fallback value when the call
\* fails or the key is missing; and a step that sets coachAdvice or banter
\* leaves the GameState (and the driver's position) as it was
C24_AdvisoryFailureLocal ==
  /\ [](\A apiKey \in ApiKeys, outcome \in ServiceOutcomes :
          /\ getPokerAdvice(apiKey, outcome).status = "fulfilled"
          /\ generateOpponentBanter(apiKey, outcome).status = "fulfilled"
          /\ AdviceFailed(apiKey, outcome) =>
               getPokerAdvice(apiKey, outcome).value \in AdviceFallbacks
          /\ BanterFailed(apiKey, outcome) =>
               generateOpponentBanter(apiKey, outcome).value \in BanterFallbacks)
  /\ [](coachAdvice # <<>> =>
          coachAdvice[1] \in AdviceFallbacks \cup {ServiceAdvice})
  /\ [][(coachAdvice' # coachAdvice \/ banter' # banter) =>
          (gameState' = gameState /\ pc' = pc)]_vars

\* a river state, chips in the pot, in which both advisory calls have failed
\* and left their fallback values
C24_Witness ==
  /\ gameState.phase = "RIVER"
  /\ gameState.pot = 40
  /\ coachAdvice = <<[action |-> "Thinking...",
                      reasoning |-> "The coach is pondering the orb. (API Error)",
                      winProbability |-> "??%"]>>
  /\ banter = "Your turn."

\* C25: processPlayerAction does not modify the state it is given: after the
\* call, for any amount the seat at the pointer may commit, the input state's
\* seat records have the chips, currentBet and isAllIn they had before
C25_InputStateUntouched ==
  (gameState.phase \in BettingPhases /\ CanAct(CurrentPlayer)) =>
    \A amount \in ActionAmounts :
      \A i \in Seats :
        LET after == InputAfterAction(gameState, gameState.currentPlayerIndex, amount).players[i]
        IN /\ after.chips = gameState.players[i].chips
           /\ after.currentBet = gameState.players[i].currentBet
           /\ after.isAllIn = gameState.players[i].isAllIn

\* what C26 says of the state after, reached from the state before by an
\* action of seat i
RaiseRule(before, after, i) ==
  IF after.players[i].currentBet > before.currentBet
  THEN /\ after.currentBet = after.players[i].currentBet
       /\ after.minBet = Max(before.minBet, after.players[i].currentBet - before.currentBet)
       /\ after.lastRaiserIndex = i
  ELSE /\ after.currentBet = before.currentBet
       /\ after.minBet = before.minBet
       /\ after.lastRaiserIndex = before.lastRaiserIndex

\* C26: when the acting seat's bet after the action exceeds the table's bet
\* before it, currentBet becomes the seat's bet, minBet the larger of the old
\* minBet and the difference, and lastRaiserIndex the seat; otherwise the
\* three are unchanged: for every amount the seat at the pointer may commit,
\* and for every action the driver applies
C26_RaiseRule ==
  /\ []((gameState.phase \in BettingPhases /\ CanAct(CurrentPlayer)) =>
          \A amount \in ActionAmounts \cup {0} :
            RaiseRule(gameState,
                      processPlayerAction(gameState, gameState.currentPlayerIndex, amount),
                      gameState.currentPlayerIndex))
  /\ [][(pc \in {"dealt", "act"} /\ pc' = "turn") =>
          RaiseRule(gameState, gameState', gameState.currentPlayerIndex)]_vars

\* after a raise on the flop: the seat at the pointer is the last raiser, the
\* table's bet is its bet, and the minimum raise has grown beyond the big
\* blind
C26_Witness ==
  /\ pc = "turn"
  /\ gameState.phase = "FLOP"
  /\ gameState.lastRaiserIndex = gameState.currentPlayerIndex
  /\ gameState.currentBet = CurrentPlayer.currentBet
  /\ gameState.currentBet > BIG_BLIND
  /\ gameState.minBet = gameState.currentBet

\* the seat nextTurn's scan finds in state, and the number of seats it passed
SeatFound(state) ==
  TurnScan(state.players, (state.currentPlayerIndex + 1) % NumSeats(state.players), 0)

\* nextTurn applied to state closes the round because the seat found is the
\* lastRaiserIndex seat and its bet equals the table's bet
ClosesOnAggressor(state) ==
  /\ state.phase \in BettingPhases
  /\ SeatFound(state)[2] < NumSeats(state.players)
  /\ state.lastRaiserIndex = SeatFound(state)[1]
  /\ state.players[SeatFound(state)[1]].currentBet = state.currentBet

\* every seat of state that can act has matched the table's bet
BetsMatched(state) ==
  \A i \in DOMAIN state.players :
    CanAct(state.players[i]) => state.players[i].currentBet = state.currentBet

\* C27: whenever a nextTurn of the driver closes the betting round on the
\* lastRaiserIndex seat with its bet matched, every seat that is active and
\* not all-in has its currentBet equal to the table's currentBet, and the
\* state it returns is nextPhase's
C27_ClosureMeansMatched ==
  [][\A s \in TurnInputs :
       (gameState' = nextTurn(s) /\ pc' = "act" /\ ClosesOnAggressor(s)) =>
         /\ BetsMatched(s)
         /\ gameState' = nextPhase(s)]_vars

\* nextTurn applied to state finds a seat that can act and does not close the
\* round on it
KeepsRoundOpen(state) ==
  /\ SeatFound(state)[2] < NumSeats(state.players)
  /\ ~( /\ state.lastRaiserIndex = SeatFound(state)[1]
        /\ state.players[SeatFound(state)[1]].currentBet = state.currentBet )

\* C28: a nextTurn that does not close the round returns its input with
\* currentPlayerIndex set to the seat found and every other field (pot,
\* phase, players, deck, communityCards, currentBet, minBet,
\* lastRaiserIndex, handHistory, ...) as it was
C28_TurnFrame ==
  [][\A s \in TurnInputs :
       (gameState' = nextTurn(s) /\ pc' = "act" /\ KeepsRoundOpen(s)) =>
         /\ gameState'.currentPlayerIndex = SeatFound(s)[1]
         /\ \A f \in DOMAIN s \ {"currentPlayerIndex"} : gameState'[f] = s[f]]_vars

\* after a raise the pointer has moved on to a seat that has yet to match it
C28_Witness ==
  /\ pc = "act"
  /\ gameState.phase = "PRE_FLOP"
  /\ gameState.currentBet > BIG_BLIND
  /\ CanAct(CurrentPlayer)
  /\ CurrentPlayer.currentBet < gameState.currentBet
  /\ gameState.lastRaiserIndex # gameState.currentPlayerIndex

\* state is in a dealing street with a seat still in the hand and no seat
\* left that can act
EveryoneAllIn(state) ==
  /\ state.phase \in {"PRE_FLOP", "FLOP", "TURN"}
  /\ NumActive(state.players) >= 1
  /\ \A i \in DOMAIN state.players : ~CanAct(state.players[i])

\* C29: nextPhase entered from PRE_FLOP, FLOP or TURN with a seat in the
\* hand and no seat able to act returns, in that one call, a state in
\* SHOWDOWN with exactly five community cards and pot 0
C29_AllInRunOut ==
  \A s \in TurnInputs :
    EveryoneAllIn(s) =>
      /\ nextPhase(s).phase = "SHOWDOWN"
      /\ Len(nextPhase(s).communityCards) = 5
      /\ nextPhase(s).pot = 0

\* two seats are all-in before the flop and the turn is about to advance
C29_Witness ==
  /\ pc = "turn"
  /\ gameState.phase = "PRE_FLOP"
  /\ EveryoneAllIn(gameState)
  /\ NumActive(gameState.players) >= 2
  /\ gameState.communityCards = <<>>
  /\ nextTurn(gameState) = nextPhase(gameState)

\* number of seats passed going clockwise from the seat after the dealer to
\* seat i
ClockwiseFromDealer(state, i) ==
  (i - (state.dealerIndex + 1)) % NumSeats(state.players)

\* seat i is the first seat clockwise from dealerIndex + 1 that is active
\* and not all-in
FirstToAct(state, i) ==
  /\ CanAct(state.players[i])
  /\ \A j \in DOMAIN state.players :
       CanAct(state.players[j]) =>
         ClockwiseFromDealer(state, i) <= ClockwiseFromDealer(state, j)

\* C30: when nextPhase, called by nextTurn, returns a state in FLOP, TURN or
\* RIVER, currentPlayerIndex is the first seat clockwise from
\* dealerIndex + 1 that is active and not all-in, lastRaiserIndex is that
\* same seat, and every seat's currentBet and the table currentBet are 0
C30_FirstActorOfStreet ==
  [][\A s \in TurnInputs :
       ( /\ gameState' = nextTurn(s)
         /\ pc' = "act"
         /\ ~KeepsRoundOpen(s)
         /\ gameState' = nextPhase(s)
         /\ gameState'.phase \in {"FLOP", "TURN", "RIVER"} ) =>
         /\ FirstToAct(gameState', gameState'.currentPlayerIndex)
         /\ gameState'.lastRaiserIndex = gameState'.currentPlayerIndex
         /\ gameState'.currentBet = 0
         /\ \A i \in DOMAIN gameState'.players :
              gameState'.players[i].currentBet = 0]_vars

\* the seats that setupNewHand makes post the small and the big blind, from
\* the arguments of the call
PostsTwoHanded(chips) == Cardinality({i \in DOMAIN chips : chips[i] > 0}) = 2

SbIndexOf(chips, dealerIdx) ==
  IF PostsTwoHanded(chips) THEN (dealerIdx + 1) % NumSeats(chips)
  ELSE (dealerIdx + 2) % NumSeats(chips)

BbIndexOf(chips, dealerIdx) ==
  IF PostsTwoHanded(chips) THEN (dealerIdx + 2) % NumSeats(chips)
  ELSE (dealerIdx + 3) % NumSeats(chips)

\* seat i came to setupNewHand with a stack not larger than blind, and is
\* left with no chips and all-in
ShortPosterAllIn(i, blind) ==
  handInput.chips[i] <= blind =>
    gameState.players[i].chips = 0 /\ gameState.players[i].isAllIn

\* C31: in the state setupNewHand returns, each blind poster has committed
\* min(blind, its stack) and holds that as currentBet, a poster whose stack
\* is not larger than its blind has chips 0 and is all-in, and the pot is
\* the sum of the two amounts posted
C31_BlindsCapped ==
  pc = "dealt" =>
    LET sb == SbIndexOf(handInput.chips, handInput.dealerIdx)
        bb == BbIndexOf(handInput.chips, handInput.dealerIdx)
    IN /\ Posted(sb, SMALL_BLIND) /\ ShortPosterAllIn(sb, SMALL_BLIND)
       /\ Posted(bb, BIG_BLIND) /\ ShortPosterAllIn(bb, BIG_BLIND)
       /\ gameState.pot = gameState.players[sb].currentBet
                           + gameState.players[bb].currentBet

\* a later hand of a session is set up with a big blind that is short of 20
\* and has chips
C31_Witness ==
  /\ pc = "dealt"
  /\ gameState.handCount >= 2
  /\ LET bb == BbIndexOf(handInput.chips, handInput.dealerIdx)
     IN /\ handInput.chips[bb] > 0
        /\ handInput.chips[bb] < BIG_BLIND
        /\ gameState.players[bb].isAllIn
        /\ gameState.pot < SMALL_BLIND + BIG_BLIND

\* what seat i has yet to put in to match the table bet
ToCallOf(i) == gameState.currentBet - gameState.players[i].currentBet

\* C32: for every seat and every outcome of the random draws, getBotDecision
\* returns neither FOLD nor CALL when nothing is outstanding for the seat,
\* and does not return CHECK when something is
C32_DecisionMatchesBet ==
  \A i \in Seats :
    \A d \in BotDecisions(i) :
      /\ ToCallOf(i) = 0 => d.action \notin {"FOLD", "CALL"}
      /\ ToCallOf(i) > 0 => d.action # "CHECK"

\* after the flop a bot is to act facing a bet, and its draws make it fold
\* or call
C32_Witness ==
  /\ BotToAct
  /\ gameState.phase # "PRE_FLOP"
  /\ ToCall > 0
  /\ {"FOLD", "CALL"} \subseteq
       {d.action : d \in BotDecisions(gameState.currentPlayerIndex)}

\* C33: getBotDecision returns RAISE only to a seat whose chips exceed
\* toCall + minBet, with an amount of at least minBet and at most
\* max(minBet, floor(1.5 * pot)); and the step in which handleAiTurn applies
\* a raise lifts the table currentBet by at least minBet
C33_BotRaiseLegal ==
  /\ [](\A i \in Seats :
         \A d \in BotDecisions(i) :
           d.action = "RAISE" =>
             /\ gameState.players[i].chips > ToCallOf(i) + gameState.minBet
             /\ d.amount >= gameState.minBet
             /\ d.amount <= Max(gameState.minBet, (3 * gameState.pot) \div 2))
  /\ [][BotRaises =>
          gameState'.currentBet >= gameState.currentBet + gameState.minBet]_vars

\* a bot has raised by more than the minimum raise: the pot-scaled amount
C33_Witness ==
  /\ pc = "turn"
  /\ ~CurrentPlayer.isHuman
  /\ gameState.lastRaiserIndex = gameState.currentPlayerIndex
  /\ gameState.currentBet = CurrentPlayer.currentBet
  /\ gameState.minBet > BIG_BLIND
  /\ gameState.phase # "PRE_FLOP"

\* the table bet of state stands above the bet the round opened with, so it
\* was set by a raise of this round, made by the seat at lastRaiserIndex
RaisedThisRound(state) ==
  state.currentBet > (IF state.phase = "PRE_FLOP" THEN BIG_BLIND ELSE 0)

\* C34: within a betting round nextTurn does not put the pointer on a seat
\* that has acted since the last raise.  After a raise a seat other than
\* the raiser holds the table bet only by having called it, so a nextTurn
\* that keeps the round open puts the pointer on a seat whose bet is still
\* below the table bet
C34_NotAskedTwice ==
  [][\A s \in TurnInputs :
       ( /\ gameState' = nextTurn(s)
         /\ pc' = "act"
         /\ KeepsRoundOpen(s)
         /\ RaisedThisRound(s) ) =>
         gameState'.players[gameState'.currentPlayerIndex].currentBet
           < gameState'.currentBet]_vars

\* C35: in the state setupNewHand returns, the seat at the turn pointer is
\* active and not all-in whenever the table has such a seat
C35_FirstActorCanAct ==
  (pc = "dealt" /\ Eligible(gameState) # {}) => CanAct(CurrentPlayer)

\* C36: while at least two seats hold chips, setupNewHand gives neither the
\* dealer button nor a blind to a seat that came with 0 chips, and the pot
\* it returns is greater than 0
C36_NoBlindToBustedSeat ==
  (pc = "dealt" /\ Cardinality(Holders) >= 2) =>
    /\ gameState.dealerIndex \in Holders
    /\ SbIndexOf(handInput.chips, handInput.dealerIdx) \in Holders
    /\ BbIndexOf(handInput.chips, handInput.dealerIdx) \in Holders
    /\ gameState.pot > 0

\* C37: in every reachable state no seat's currentBet is above the table
\* currentBet (so no seat's amount to call is negative), and the table
\* currentBet is not negative
C37_SeatBetWithinTableBet ==
  /\ gameState.currentBet >= 0
  /\ \A i \in Seats : gameState.players[i].currentBet <= gameState.currentBet

\* in a later hand of the session a seat has raised and the seat now at the
\* pointer has yet to match it
C37_Witness ==
  /\ gameState.handCount >= 2
  /\ pc = "act"
  /\ gameState.currentBet > BIG_BLIND
  /\ gameState.players[gameState.lastRaiserIndex].currentBet = gameState.currentBet
  /\ ToCall > 0

\* the number of community cards that goes with a phase
BoardSize(phase) ==
  CASE phase = "PRE_FLOP" -> 0
    [] phase = "FLOP" -> 3
    [] phase = "TURN" -> 4
    [] phase \in {"RIVER", "SHOWDOWN"} -> 5

\* C38: the number of community cards is 0 in PRE_FLOP, 3 in FLOP, 4 in
\* TURN and 5 in RIVER and SHOWDOWN, and within a hand the community cards
\* of a state are a prefix of those of its successor
C38_BoardFollowsPhase ==
  /\ [](gameState.phase \in BettingPhases \cup {"SHOWDOWN"} =>
          Len(gameState.communityCards) = BoardSize(gameState.phase))
  /\ [][gameState'.handCount = gameState.handCount =>
          /\ Len(gameState'.communityCards) >= Len(gameState.communityCards)
          /\ SubSeq(gameState'.communityCards, 1, Len(gameState.communityCards))
               = gameState.communityCards]_vars

\* the turn card is on the board and a seat is to act on it
C38_Witness ==
  /\ pc = "act"
  /\ gameState.phase = "TURN"
  /\ Len(gameState.communityCards) = 4
  /\ CanAct(CurrentPlayer)

\* the cards a state holds: hole cards, board and deck
CardsInPlay(state) ==
  UNION {CardsOf(state.players[i].hand) : i \in DOMAIN state.players}
    \cup CardsOf(state.communityCards) \cup CardsOf(state.deck)

\* how many cards a state holds, counted place by place
CardCount(state) ==
  SumTo([i \in DOMAIN state.players |-> Len(state.players[i].hand)],
        NumSeats(state.players) - 1)
    + Len(state.communityCards) + Len(state.deck)

\* the pops nextPhase has made for a board of the given size: a burn before
\* the flop, the turn and the river
PoppedForBoard(size) ==
  CASE size = 0 -> 0
    [] size = 3 -> 4
    [] size = 4 -> 6
    [] size = 5 -> 8

\* C39: the hole cards of all seats, the board and the deck are real cards
\* with no card in two places or twice in one, every pop of the hand found a
\* card on the deck, and within a hand the deck of a state is what is left
\* of its predecessor's deck after popping from the tail
C39_CardAccounting ==
  /\ [](/\ CardsInPlay(gameState) \subseteq CardsOf(createDeck)
         /\ Cardinality(CardsInPlay(gameState)) = CardCount(gameState)
         /\ CardCount(gameState) - Len(gameState.communityCards)
              + PoppedForBoard(Len(gameState.communityCards)) = 52)
  /\ [][gameState'.handCount = gameState.handCount =>
          /\ Len(gameState'.deck) <= Len(gameState.deck)
          /\ gameState'.deck = SubSeq(gameState.deck, 1, Len(gameState'.deck))]_vars

\* a later hand of the session has been dealt out to the river with two
\* seats holding cards
C39_Witness ==
  /\ gameState.handCount >= 2
  /\ gameState.phase = "RIVER"
  /\ Len(gameState.communityCards) = 5
  /\ Cardinality({i \in Seats : Len(gameState.players[i].hand) = 2}) >= 2
  /\ Len(gameState.deck) = 52 - 8 - 2 * Cardinality({i \in Seats : Len(gameState.players[i].hand) = 2})

\* the ranks among the cards of seat i, the ace also counted as 1
RanksHeld(i) ==
  {getCardValue(c) : c \in CardsOf(AllCardsOf(i))}
    \cup (IF \E c \in CardsOf(AllCardsOf(i)) : getCardValue(c) = 14 THEN {1} ELSE {})

\* the top ranks of the runs of five consecutive ranks held by seat i
RunTops(i) == {v \in 5..14 : \A k \in 0..4 : (v - k) \in RanksHeld(i)}

\* C40: when evaluateHand returns "Straight" the score is 4000 plus the top
\* rank of the highest run of five consecutive ranks among the cards (5 for
\* the wheel when there is no higher run), also when the run goes on for six
\* or seven ranks
C40_StraightScore ==
  \A i \in Seats :
    (gameState.players[i].hand # <<>> /\ EvalOf(i).description = "Straight") =>
      /\ RunTops(i) # {}
      /\ \A v \in RunTops(i) : EvalOf(i).score >= 4000 + v
      /\ \E v \in RunTops(i) : EvalOf(i).score = 4000 + v

====
